---- MODULE Spec2Model ----
(***************************************************************************)
(* Call scheduling, due-schedule execution and call reconciliation of the  *)
(* CalicoCare dashboard: the Supabase repository (vapiRepository), the     *)
(* VAPI service (vapiService) and the poller of VAPIPage.                  *)
(***************************************************************************)
EXTENDS Integers, Sequences, FiniteSets, TLC

(* ------------------------------ bounds --------------------------------- *)

\* Last instant of the clock.
MaxTime == 1
\* Clock instants per calendar day.
TicksPerDay == 1
\* Schedule rows that may be created.
MaxSchedules == 2
\* Call rows that may be created.
MaxCalls == 2
\* Executor invocations that may be in flight together (poll ticks, tabs).
MaxRuns == 2

\* refreshCallDetails invocations that may be in flight together.
MaxRefreshers == 2
\* Changes of the provider's answer for one call.
MaxChanges == 2
\* Times the poller's interval timer may fire.
MaxTicks == 2

\* Days of a week: dayOfWeek ranges over 0..6.
DaysPerWeek == 7

Runs == 1..MaxRuns
Refreshers == 1..MaxRefreshers
Times == 0..MaxTime

(* --------------------------- optional values --------------------------- *)

\* undefined / null is the empty set, a present value v is {v}.
None == {}
Some(v) == {v}
Get(o) == CHOOSE v \in o : TRUE
\* JavaScript's a ?? b.
Coalesce(a, b) == IF a # None THEN a ELSE b

(* ------------------------------ dates ---------------------------------- *)

\* Date.prototype.toISOString and new Date(iso).
ToISOString(d) == <<"iso", d>>
ParseDate(s) == s[2]
DayOf(t) == t \div TicksPerDay
WeekdayOf(t) == DayOf(t) % DaysPerWeek

VARIABLES
  now,          \* the system clock
  schedules,    \* table vapi_call_schedules: id -> row
  calls,        \* table vapi_calls: sequence of rows, the id is the index
  initiated,    \* requests the provider has accepted, in order, each with
                \* the schedule it was made for (0: none), the instant and
                \* the status of the provider's answer
  run,          \* executor invocations: run id -> frame
  remote,       \* the provider's current answer to GET /call/:id
  changes,      \* how often the provider's answer has changed
  rf,           \* refreshCallDetails invocations: id -> frame
  poller,       \* the page's poller: mounted, its timer, its counts
  catalog       \* tables patients and vapi_prompts: the ids they hold

vars ==
  <<now, schedules, calls, initiated, run, remote, changes, rf, poller, catalog>>
refreshVars == <<remote, changes, rf>>

(* --------------------------- repository -------------------------------- *)

ThePatient == "patient-1"
ThePrompt == "prompt-1"
ThePhone == "+15550100"
OtherPrompt == "prompt-2"

\* Tables patients and vapi_prompts as the page finds them: one patient
\* with two prompts.
Patients == {ThePatient}
Prompts == {ThePrompt, OtherPrompt}
FullCatalog == [ patients |-> Patients, prompts |-> Prompts ]

\* mapSchedule: the row as the application sees it (no lastExecutedAt).
mapSchedule(id, row) ==
  [ id |-> id,
    patientId |-> row.patient_id,
    promptId |-> row.prompt_id,
    type |-> row.type,
    scheduledTime |->
      IF row.scheduled_time # None
        THEN Some(ParseDate(Get(row.scheduled_time))) ELSE None,
    recurrenceType |-> row.recurrence_type,
    dayOfWeek |-> row.day_of_week,
    isActive |-> row.is_active ]

\* vapiRepository.createSchedule: the inserted row.
createSchedule(payload) ==
  [ patient_id |-> payload.patientId,
    prompt_id |-> payload.promptId,
    type |-> payload.type,
    scheduled_time |->
      IF payload.scheduledTime # None
        THEN Some(ToISOString(Get(payload.scheduledTime))) ELSE None,
    recurrence_type |-> payload.recurrenceType,
    day_of_week |-> payload.dayOfWeek,
    is_active |-> TRUE,
    last_executed_at |-> None ]

\* What is left of a row of vapi_call_schedules once it is deleted: its id
\* is not given out again and no query returns it.
DeletedSchedule ==
  [ patient_id |-> "", prompt_id |-> "", type |-> "deleted",
    scheduled_time |-> None, recurrence_type |-> None, day_of_week |-> None,
    is_active |-> FALSE, last_executed_at |-> None ]

\* The ids of the rows vapi_call_schedules holds.
ScheduleRecords(table) == { id \in DOMAIN table : table[id] # DeletedSchedule }

\* Variant of the cascade that deletes every row, whatever its key.
CascadeSchedulesEveryRow(table, column, key) ==
  [ id \in DOMAIN table |-> DeletedSchedule ]

\* vapi_call_schedules, "on delete cascade": the rows whose foreign key
\* column holds the deleted key go with it.
CascadeSchedules(table, column, key) ==
  [ id \in DOMAIN table |->
      IF table[id][column] = key THEN DeletedSchedule ELSE table[id] ]

\* Variant of the filter without the condition on type.
DueRowAnyType(row, at) ==
  /\ row.is_active = TRUE
  /\ row.scheduled_time # None
  /\ ParseDate(Get(row.scheduled_time)) <= ParseDate(ToISOString(at))

\* Variant of the filter without the condition on is_active.
DueRowAnyActivity(row, at) ==
  /\ row.type = "one-time"
  /\ row.scheduled_time # None
  /\ ParseDate(Get(row.scheduled_time)) <= ParseDate(ToISOString(at))

\* The filter of vapiRepository.listDueSchedules on one row.
DueRow(row, at) ==
  /\ row.is_active = TRUE
  /\ row.type = "one-time"
  /\ row.scheduled_time # None
  /\ ParseDate(Get(row.scheduled_time)) <= ParseDate(ToISOString(at))

\* vapiRepository.listDueSchedules at clock instant `at`.
listDueSchedules(table, at) ==
  { mapSchedule(id, table[id]) : id \in { i \in DOMAIN table : DueRow(table[i], at) } }

\* Variant of updateSchedule that does not patch last_executed_at.
updateScheduleWithoutStamp(row, updates) ==
  [ row EXCEPT
      !.scheduled_time =
        IF updates.scheduledTime # None
          THEN Some(ToISOString(Get(updates.scheduledTime))) ELSE @ ]

\* Variant of updateSchedule whose patch sets the flag as well.
updateScheduleReactivating(row, updates) ==
  [ row EXCEPT
      !.scheduled_time =
        IF updates.scheduledTime # None
          THEN Some(ToISOString(Get(updates.scheduledTime))) ELSE @,
      !.last_executed_at =
        IF updates.lastExecutedAt # None
          THEN Some(ToISOString(Get(updates.lastExecutedAt))) ELSE @,
      !.is_active = TRUE ]

\* vapiRepository.updateSchedule: the patched row.
updateSchedule(row, updates) ==
  [ row EXCEPT
      !.scheduled_time =
        IF updates.scheduledTime # None
          THEN Some(ToISOString(Get(updates.scheduledTime))) ELSE @,
      !.last_executed_at =
        IF updates.lastExecutedAt # None
          THEN Some(ToISOString(Get(updates.lastExecutedAt))) ELSE @ ]

\* Variant of deactivateSchedule that leaves the row as it is.
deactivateScheduleNoPatch(row) == row

\* vapiRepository.deactivateSchedule: the patched row.
deactivateSchedule(row) == [ row EXCEPT !.is_active = FALSE ]

(* ------------------------------ call rows ------------------------------ *)

\* Column defaults of table vapi_calls.
CallDefaults ==
  [ patient_id |-> None, prompt_id |-> None, schedule_id |-> None,
    phone_number |-> None, provider_call_id |-> None, status |-> None,
    started_at |-> None, completed_at |-> None, duration |-> None,
    transcript |-> None, transcript_entries |-> None,
    artifacts |-> None, analysis |-> None ]

Has(payload, key) == key \in DOMAIN payload
OptIso(d) == IF d # None THEN Some(ToISOString(Get(d))) ELSE None
OptDate(s) == IF s # None THEN Some(ParseDate(Get(s))) ELSE None

\* buildCallPayload: one column of the request body, or no entry
\* (the empty function) when the payload does not carry the key.
Column(payload, key, column, asIso, needsValue) ==
  IF Has(payload, key) /\ (~needsValue \/ payload[key] # None)
    THEN column :> (IF asIso THEN OptIso(payload[key]) ELSE payload[key])
    ELSE <<>>

\* buildCallPayload: the request body of an insert or an update.
buildCallPayload(payload) ==
  Column(payload, "patientId", "patient_id", FALSE, TRUE) @@
  Column(payload, "promptId", "prompt_id", FALSE, TRUE) @@
  Column(payload, "scheduleId", "schedule_id", FALSE, FALSE) @@
  Column(payload, "phoneNumber", "phone_number", FALSE, TRUE) @@
  Column(payload, "providerCallId", "provider_call_id", FALSE, FALSE) @@
  Column(payload, "status", "status", FALSE, TRUE) @@
  Column(payload, "startedAt", "started_at", TRUE, FALSE) @@
  Column(payload, "completedAt", "completed_at", TRUE, FALSE) @@
  Column(payload, "duration", "duration", FALSE, FALSE) @@
  Column(payload, "transcript", "transcript", FALSE, FALSE) @@
  Column(payload, "transcriptEntries", "transcript_entries", FALSE, FALSE) @@
  Column(payload, "artifacts", "artifacts", FALSE, FALSE) @@
  Column(payload, "analysis", "analysis", FALSE, FALSE)

\* vapiRepository.createCall: the table after the insert.
repoCreateCall(table, payload) ==
  Append(table, buildCallPayload(payload) @@ CallDefaults)

\* Variant of updateCall that replaces the row by the request body.
repoUpdateCallReplacing(table, id, updates) ==
  [ table EXCEPT ![id] = buildCallPayload(updates) @@ CallDefaults ]

\* vapiRepository.updateCall: the table after the update of row id.
repoUpdateCall(table, id, updates) ==
  [ table EXCEPT ![id] = buildCallPayload(updates) @@ @ ]

\* mapCall: the row as the application sees it.
mapCall(id, row) ==
  [ id |-> id,
    patientId |-> row.patient_id,
    promptId |-> row.prompt_id,
    scheduleId |-> row.schedule_id,
    phoneNumber |-> row.phone_number,
    providerCallId |-> row.provider_call_id,
    status |-> row.status,
    startedAt |-> OptDate(row.started_at),
    completedAt |-> OptDate(row.completed_at),
    duration |-> row.duration,
    transcript |-> row.transcript,
    transcriptEntries |-> row.transcript_entries,
    artifacts |-> row.artifacts,
    analysis |-> row.analysis ]

\* String.prototype.toLowerCase on the status strings of the model.
ToLowerCase(s) ==
  CASE s = "COMPLETED" -> "completed"
    [] s = "In-Progress" -> "in-progress"
    [] OTHER -> s

\* Variant of mapApiStatusToLocal that knows the local statuses only.
mapApiStatusToLocalNoAliases(status) ==
  LET s == IF status = None THEN "" ELSE ToLowerCase(Get(status)) IN
  CASE s = "completed" -> "completed"
    [] s = "failed" -> "failed"
    [] s = "in-progress" -> "in-progress"
    [] OTHER -> "pending"

\* mapApiStatusToLocal, on the provider's status (absent: None).
mapApiStatusToLocal(status) ==
  LET s == IF status = None THEN "" ELSE ToLowerCase(Get(status)) IN
  CASE s \in {"completed", "finished"} -> "completed"
    [] s \in {"failed", "error"} -> "failed"
    [] s \in {"in-progress", "running", "live"} -> "in-progress"
    [] OTHER -> "pending"

(* ------------------------- vapiService.createCall ---------------------- *)

\* What the assistant lookup and the provider's POST /call can answer.
\* "assistant": getAssistant returned null; "rejected": a non-2xx answer;
\* "network": fetch threw.
FailureKinds == {"assistant", "rejected", "network"}
\* Statuses the provider reports for a call it has just accepted.
InitiationStatuses == {"queued", "in-progress"}

\* status: the status of the provider's answer, None when it has none.
Accepted(id, status) == [ ok |-> TRUE, id |-> id, status |-> status, error |-> "" ]
Failed(kind) == [ ok |-> FALSE, id |-> 0, status |-> None, error |-> kind ]

\* The payload createCall stores once the provider has accepted.
AcceptedPayload(params, data, at) ==
  LET status == mapApiStatusToLocal(data.status) IN
  [ patientId |-> Some(params.patientId),
    promptId |-> Some(params.promptId),
    phoneNumber |-> Some(params.phoneNumber),
    providerCallId |-> Some(data.id),
    status |-> Some(status),
    startedAt |-> IF status = "in-progress" THEN Some(at) ELSE None ]

\* The payload createCall stores in its catch block.
FailedPayload(params) ==
  [ patientId |-> Some(params.patientId),
    promptId |-> Some(params.promptId),
    phoneNumber |-> Some(params.phoneNumber),
    status |-> Some("failed") ]

\* Variant of createCall whose catch block stores nothing.
createCallRecordNoCatch(table, params, resp, at) ==
  IF resp.ok
    THEN repoCreateCall(table, AcceptedPayload(params, resp, at))
    ELSE table

\* Variant of createCall that stores no row for an accepted call.
createCallRecordUnstored(table, params, resp, at) ==
  IF resp.ok
    THEN table
    ELSE repoCreateCall(table, FailedPayload(params))

\* vapiService.createCall after the provider has answered `resp`: the call
\* table it leaves behind.
createCallRecord(table, params, resp, at) ==
  IF resp.ok
    THEN repoCreateCall(table, AcceptedPayload(params, resp, at))
    ELSE repoCreateCall(table, FailedPayload(params))

\* Variant of createCall whose catch block does not rethrow.
createCallThrownSwallowed(resp) == None

\* vapiService.createCall: the error it throws to its caller, if any.
createCallThrown(resp) == IF resp.ok THEN None ELSE Some(resp.error)

\* vapiService.cancelSchedule: the schedule table it leaves behind.
cancelSchedule(table, id) ==
  IF id \notin ScheduleRecords(table)
    THEN table
    ELSE [ table EXCEPT ![id] = deactivateSchedule(@) ]

\* Variant of cancelSchedule that reports success for any id.
cancelScheduleResultAlwaysTrue(table, id) == TRUE

\* vapiService.cancelSchedule: its return value.
cancelScheduleResult(table, id) == id \in ScheduleRecords(table)

\* vapiService.cancelSchedule: the error it throws to its caller, if any.
\* It has no throw of its own.
cancelScheduleThrown(table, id) == None

(* --------------------------- transcripts ------------------------------- *)

\* Values the provider puts in a transcript entry's message, content or
\* text: a string ("str"), or an object whose text is a string ("nested").
StrVal(v) == [ t |-> "str", v |-> v ]
NestedVal(v) == [ t |-> "nested", v |-> v ]

\* extractTextFromAny on such a value (absent: None).
extractTextFromAny(value) == IF value = None THEN "" ELSE Get(value).v

IsString(value) == value # None /\ Get(value).t = "str"

\* Raw transcript entries: a string (k = "str", s its text), a number
\* (k = "num") or an object (k = "obj") with optional keys.
RawString(text) ==
  [ k |-> "str", s |-> text, role |-> None, speaker |-> None,
    message |-> None, content |-> None, text |-> None, time |-> None ]
RawNumber ==
  [ k |-> "num", s |-> "", role |-> None, speaker |-> None,
    message |-> None, content |-> None, text |-> None, time |-> None ]
RawObject(role, speaker, message, content, time) ==
  [ k |-> "obj", s |-> "", role |-> role, speaker |-> speaker,
    message |-> message, content |-> content, text |-> None, time |-> time ]

\* The message toTranscriptEntry extracts from an object entry.
EntryMessage(obj) ==
  CASE IsString(obj.message) -> Get(obj.message).v
    [] IsString(obj.content) -> Get(obj.content).v
    [] IsString(obj.text) -> Get(obj.text).v
    [] OTHER ->
       IF extractTextFromAny(obj.message) # "" THEN extractTextFromAny(obj.message)
       ELSE IF extractTextFromAny(obj.content) # "" THEN extractTextFromAny(obj.content)
       ELSE extractTextFromAny(obj.text)

EntryRole(obj) ==
  CASE obj.role # None -> Get(obj.role)
    [] obj.speaker # None -> Get(obj.speaker)
    [] OTHER -> "speaker"

\* toTranscriptEntry: the entry, or None for null.
toTranscriptEntry(entry) ==
  CASE entry.k = "str" ->
         IF entry.s = "" THEN None
         ELSE Some([ role |-> "speaker", message |-> entry.s, time |-> None ])
    [] entry.k = "obj" ->
         IF EntryMessage(entry) = "" THEN None
         ELSE Some([ role |-> EntryRole(entry), message |-> EntryMessage(entry),
                     time |-> entry.time ])
    [] OTHER -> None

\* Variant of the mapping that yields the entries last to first.
RECURSIVE MapEntriesLastFirst(_)
MapEntriesLastFirst(items) ==
  IF items = <<>> THEN <<>>
  ELSE LET e == toTranscriptEntry(Head(items)) IN
       MapEntriesLastFirst(Tail(items)) \o (IF e = None THEN <<>> ELSE <<Get(e)>>)

\* candidate.map(toTranscriptEntry).filter(Boolean)
RECURSIVE MapEntries(_)
MapEntries(items) ==
  IF items = <<>> THEN <<>>
  ELSE LET e == toTranscriptEntry(Head(items)) IN
       (IF e = None THEN <<>> ELSE <<Get(e)>>) \o MapEntries(Tail(items))

\* Raw transcripts: a plain string, an array of entries, or an object that
\* holds an array under entries or under messages.
RawText == [ shape |-> "string", items |-> <<>>, entries |-> None, messages |-> None ]
RawArray(items) == [ shape |-> "array", items |-> items, entries |-> None, messages |-> None ]
RawHolder(entries, messages) ==
  [ shape |-> "object", items |-> <<>>, entries |-> entries, messages |-> messages ]

\* The arrays normalizeTranscriptEntries tries, in its order.
Candidates(raw) ==
  CASE raw.shape = "array" -> << raw.items >>
    [] raw.shape = "object" ->
         (IF raw.entries # None THEN << Get(raw.entries) >> ELSE <<>>) \o
         (IF raw.messages # None THEN << Get(raw.messages) >> ELSE <<>>)
    [] OTHER -> <<>>

RECURSIVE FirstEntries(_)
FirstEntries(candidates) ==
  IF candidates = <<>> THEN None
  ELSE IF MapEntries(Head(candidates)) # <<>> THEN Some(MapEntries(Head(candidates)))
  ELSE FirstEntries(Tail(candidates))

\* normalizeTranscriptEntries on an optional raw transcript.
normalizeTranscriptEntries(raw) ==
  IF raw = None THEN None ELSE FirstEntries(Candidates(Get(raw)))

\* String.prototype.toUpperCase on the roles of the model.
ToUpperCase(s) ==
  CASE s = "user" -> "USER"
    [] s = "bot" -> "BOT"
    [] s = "speaker" -> "SPEAKER"
    [] OTHER -> s

\* Number.prototype.toFixed(1) on a time in hundredths of a second: tenths.
ToFixed1(t) == (t + 5) \div 10

\* formatTranscript, one line (timestamp, speaker, message).
FormatLine(e) ==
  [ stamp |-> IF e.time # None THEN Some(ToFixed1(Get(e.time))) ELSE None,
    speaker |-> IF e.role # "" THEN ToUpperCase(e.role) ELSE "SPEAKER",
    message |-> e.message ]

\* formatTranscript: the lines joined by newlines, or None.
formatTranscript(entries) ==
  IF entries = None \/ Get(entries) = <<>> THEN None
  ELSE Some([ i \in 1..Len(Get(entries)) |-> FormatLine(Get(entries)[i]) ])

\* extractTranscriptFromArtifact.
extractTranscriptFromArtifact(artifact) ==
  IF artifact = None THEN [ entries |-> None, formatted |-> None ]
  ELSE LET a == Get(artifact)
           entries == Coalesce(normalizeTranscriptEntries(a.transcript),
                        Coalesce(normalizeTranscriptEntries(a.messages),
                                 normalizeTranscriptEntries(a.messagesOpenAIFormatted)))
       IN [ entries |-> entries, formatted |-> formatTranscript(entries) ]

(* --------------------- vapiService.refreshCallDetails ------------------ *)

\* The provider's answers to GET /call/:id (VapiCallDetailsResponse).
EmptyArtifact ==
  [ recording |-> None, logUrl |-> None, transcriptUrl |-> None,
    transcript |-> None, messages |-> None, messagesOpenAIFormatted |-> None ]
EmptyAnalysis ==
  [ summary |-> None, structuredData |-> None, successEvaluation |-> None ]
InitialDetails(status) ==
  [ status |-> status, startedAt |-> None, completedAt |-> None,
    duration |-> None, artifact |-> None, analysis |-> None ]

\* mapApiAnalysis.
mapApiAnalysis(analysis) ==
  IF analysis = None THEN None
  ELSE Some([ summary |-> Get(analysis).summary,
              structuredData |-> Get(analysis).structuredData,
              successEvaluation |-> Get(analysis).successEvaluation ])

\* x?.key on an optional record.
Field(record, key) == IF record = None THEN None ELSE Get(record)[key]

\* mergeAnalysis.
mergeAnalysis(existing, incoming) ==
  IF existing = None /\ incoming = None THEN None
  ELSE Some([ summary |-> Coalesce(Field(incoming, "summary"), Field(existing, "summary")),
              structuredData |->
                Coalesce(Field(incoming, "structuredData"), Field(existing, "structuredData")),
              successEvaluation |->
                Coalesce(Field(incoming, "successEvaluation"),
                         Field(existing, "successEvaluation")) ])

\* typeof data.duration === "number" ? data.duration : localCall.duration
MergeDuration(incoming, stored) == IF incoming # None THEN incoming ELSE stored

\* data.startedAt ? new Date(data.startedAt) : localCall.startedAt
MergeDate(incoming, stored) ==
  IF incoming # None THEN Some(ParseDate(Get(incoming))) ELSE stored

\* Variant that stores the provider's artifact keys without falling back.
MergeArtifactsOverwriting(artifact, stored) ==
  Some([ recording |-> Field(artifact, "recording"),
         logUrl |-> Field(artifact, "logUrl"),
         transcriptUrl |-> Field(artifact, "transcriptUrl") ])

\* The artifacts object refreshCallDetails stores.
MergeArtifacts(artifact, stored) ==
  Some([ recording |-> Coalesce(Field(artifact, "recording"), Field(stored, "recording")),
         logUrl |-> Coalesce(Field(artifact, "logUrl"), Field(stored, "logUrl")),
         transcriptUrl |->
           Coalesce(Field(artifact, "transcriptUrl"), Field(stored, "transcriptUrl")) ])

\* Variant that appends the provider's entries to the stored ones.
MergeEntriesAppending(incoming, stored) ==
  IF incoming # None /\ stored # None
    THEN Some(Get(stored) \o Get(incoming))
    ELSE Coalesce(incoming, stored)

\* transcriptInfo.entries ?? localCall.transcriptEntries
MergeEntries(incoming, stored) == Coalesce(incoming, stored)

\* The payload refreshCallDetails hands to vapiRepository.updateCall.
RefreshPayload(localCall, data) ==
  LET transcriptInfo == extractTranscriptFromArtifact(data.artifact)
      incomingAnalysis == mapApiAnalysis(data.analysis)
  IN [ status |-> Some(mapApiStatusToLocal(data.status)),
       startedAt |-> MergeDate(data.startedAt, localCall.startedAt),
       completedAt |-> MergeDate(data.completedAt, localCall.completedAt),
       duration |-> MergeDuration(data.duration, localCall.duration),
       transcriptEntries |->
         MergeEntries(transcriptInfo.entries, localCall.transcriptEntries),
       transcript |-> Coalesce(transcriptInfo.formatted, localCall.transcript),
       analysis |-> mergeAnalysis(localCall.analysis, incomingAnalysis),
       artifacts |-> MergeArtifacts(data.artifact, localCall.artifacts) ]

\* refreshCallDetails: the call table after the update.
refreshCallDetails(table, callId, localCall, data) ==
  repoUpdateCall(table, callId, RefreshPayload(localCall, data))

(* ------------------------------ executor ------------------------------- *)

\* total: how many due schedules the invocation has read.
IdleFrame ==
  [ pc |-> "idle", due |-> {}, cur |-> None, resp |-> None, at |-> 0,
    executed |-> 0, failed |-> 0, thrown |-> None, total |-> 0 ]

\* Call rows that an invocation has still to insert.
PendingRecords == Cardinality({ r \in Runs : run[r].pc = "record" })

CallParams(schedule) ==
  [ patientId |-> schedule.patientId, promptId |-> schedule.promptId,
    phoneNumber |-> ThePhone ]

\* Variant of step 1 that leaves out the schedules another invocation has
\* read and not finished with.
StartPassFrameExcluding(table, at) ==
  LET held == UNION { { s.id : s \in run[q].due \cup run[q].cur } : q \in Runs }
      free == { s \in listDueSchedules(table, at) : s.id \notin held }
  IN [ IdleFrame EXCEPT !.pc = "loop", !.due = free, !.at = at,
                        !.total = Cardinality(free) ]

\* executeDueSchedules, step 1: read the due schedules.
StartPassFrame(table, at) ==
  [ IdleFrame EXCEPT !.pc = "loop", !.due = listDueSchedules(table, at), !.at = at,
                     !.total = Cardinality(listDueSchedules(table, at)) ]

\* executeDueSchedules, step 6: the update of the schedule after a
\* successful initiation (lastExecutedAt first, the flag next).
ExecutorUpdates(frame) == [ scheduledTime |-> None, lastExecutedAt |-> Some(frame.at) ]

\* A refreshCallDetails invocation that is not running.
\* fetched: the invocation has sent its GET /call/:id to the provider.
IdleRefresh ==
  [ pc |-> "idle", callId |-> 0, local |-> None, data |-> None, thrown |-> None,
    fetched |-> FALSE ]

\* The poller of a page that has not rendered yet. mounted: "no", "yes",
\* or "gone" once the page is unmounted; armed: the interval timer is set;
\* ticks: how often it has fired; started: invocations of the executor
\* begun.
IdlePoller ==
  [ mounted |-> "no", armed |-> FALSE, ticks |-> 0, started |-> 0 ]

(* ------------------------------- actions ------------------------------- *)

Init ==
  /\ now = 0
  /\ schedules = <<>>
  /\ calls = <<>>
  /\ initiated = <<>>
  /\ run = [ r \in Runs |-> IdleFrame ]
  /\ poller = IdlePoller
  /\ catalog = FullCatalog
  /\ remote = InitialDetails(None)
  /\ changes = 0
  /\ rf = [ p \in Refreshers |-> IdleRefresh ]

\* The clock advances.
Tick ==
  /\ now < MaxTime
  /\ now' = now + 1
  /\ UNCHANGED <<schedules, calls, initiated, run, refreshVars, poller, catalog>>

\* What ScheduleCallForm.handleSubmit hands to handleScheduleCall.
FormSubmissions ==
  { [ patientId |-> ThePatient, promptId |-> ThePrompt, type |-> "one-time",
      scheduledTime |-> t, recurrenceType |-> None, dayOfWeek |-> None ]
    : t \in {None} \cup { Some(x) : x \in Times } }
  \cup
  { [ patientId |-> ThePatient, promptId |-> ThePrompt, type |-> "recurring",
      scheduledTime |-> Some(x), recurrenceType |-> Some(rt),
      dayOfWeek |-> IF rt = "weekly" THEN Some(d) ELSE None ]
    : x \in { y \in Times : DayOf(y) = DayOf(now) },
      rt \in {"daily", "weekly"}, d \in {0, 1} }

\* handleScheduleCall for a one-time or recurring request:
\* vapiService.scheduleCall, vapiRepository.createSchedule.
ScheduleCall ==
  /\ Len(schedules) < MaxSchedules
  /\ \E payload \in FormSubmissions :
       schedules' = Append(schedules, createSchedule(payload))
  /\ UNCHANGED <<now, calls, initiated, run, refreshVars, poller, catalog>>

\* handleDeleteSchedule: vapiService.cancelSchedule.
CancelSchedule ==
  /\ \E id \in 1..MaxSchedules : schedules' = cancelSchedule(schedules, id)
  /\ UNCHANGED <<now, calls, initiated, run, refreshVars, poller, catalog>>

\* An executor invocation begins: vapiRepository.listDueSchedules.
\* Invocations are interchangeable: a new one takes the first free frame.
StartPass(r) ==
  /\ run[r].pc = "idle"
  /\ \A q \in Runs : q < r => run[q].pc # "idle"
  /\ run' = [ run EXCEPT ![r] = StartPassFrame(schedules, now) ]
  /\ UNCHANGED <<now, schedules, calls, initiated, refreshVars, poller, catalog>>

\* createCall for the next due schedule, up to the provider's answer.
RequestAccepted(r) ==
  /\ run[r].pc = "loop"
  /\ Len(calls) + PendingRecords < MaxCalls
  /\ \E s \in run[r].due, status \in InitiationStatuses :
       /\ initiated' = Append(initiated, [ schedule |-> s.id, at |-> now,
                                           status |-> Some(status) ])
       /\ run' = [ run EXCEPT ![r].pc = "record", ![r].cur = Some(s),
                               ![r].due = @ \ {s}, ![r].thrown = None,
                               ![r].resp = Some(Accepted(Len(initiated) + 1, Some(status))) ]
  /\ UNCHANGED <<now, schedules, calls, refreshVars, poller, catalog>>

RequestFailed(r) ==
  /\ run[r].pc = "loop"
  /\ Len(calls) + PendingRecords < MaxCalls
  /\ \E s \in run[r].due, kind \in FailureKinds :
       run' = [ run EXCEPT ![r].pc = "record", ![r].cur = Some(s),
                             ![r].due = @ \ {s}, ![r].thrown = None,
                             ![r].resp = Some(Failed(kind)) ]
  /\ UNCHANGED <<now, schedules, calls, initiated, refreshVars, poller, catalog>>

\* Variant in which a failure of createCall ends the whole invocation.
RecordCallAborting(r) ==
  /\ run[r].pc = "record"
  /\ LET frame == run[r]
         resp == Get(frame.resp)
         thrown == createCallThrown(resp)
     IN /\ calls' = createCallRecord(calls, CallParams(Get(frame.cur)), resp, now)
        /\ run' = [ run EXCEPT
                      ![r] = IF thrown = None
                               THEN [ frame EXCEPT !.pc = "update" ]
                               ELSE [ IdleFrame EXCEPT !.thrown = thrown ] ]
  /\ UNCHANGED <<now, schedules, initiated, refreshVars, poller, catalog>>

\* createCall stores the call row; a failure is thrown to the executor,
\* which counts it and goes on with the next schedule.
RecordCall(r) ==
  /\ run[r].pc = "record"
  /\ LET frame == run[r]
         resp == Get(frame.resp)
         thrown == createCallThrown(resp)
     IN /\ calls' = createCallRecord(calls, CallParams(Get(frame.cur)), resp, now)
        /\ run' = [ run EXCEPT
                      ![r].thrown = thrown,
                      ![r].pc = IF thrown = None THEN "update" ELSE "loop",
                      ![r].cur = IF thrown = None THEN @ ELSE None,
                      ![r].resp = IF thrown = None THEN @ ELSE None,
                      ![r].failed = IF thrown = None THEN @ ELSE @ + 1 ]
  /\ UNCHANGED <<now, schedules, initiated, refreshVars, poller, catalog>>

\* The executor records the execution: vapiRepository.updateSchedule.
UpdateSchedule(r) ==
  /\ run[r].pc = "update"
  /\ LET frame == run[r]
         s == Get(frame.cur)
         oneTime == s.type = "one-time"
     IN /\ schedules' = [ schedules EXCEPT
                            ![s.id] = updateSchedule(@, ExecutorUpdates(frame)) ]
        /\ run' = [ run EXCEPT
                      ![r].pc = IF oneTime THEN "deactivate" ELSE "loop",
                      ![r].cur = IF oneTime THEN @ ELSE None,
                      ![r].resp = IF oneTime THEN @ ELSE None,
                      ![r].executed = IF oneTime THEN @ ELSE @ + 1 ]
  /\ UNCHANGED <<now, calls, initiated, refreshVars, poller, catalog>>

\* The executor retires a one-time schedule:
\* vapiRepository.deactivateSchedule.
DeactivateSchedule(r) ==
  /\ run[r].pc = "deactivate"
  /\ LET s == Get(run[r].cur)
     IN schedules' = [ schedules EXCEPT ![s.id] = deactivateSchedule(@) ]
  /\ run' = [ run EXCEPT ![r].pc = "loop", ![r].cur = None, ![r].resp = None,
                          ![r].executed = @ + 1 ]
  /\ UNCHANGED <<now, calls, initiated, refreshVars, poller, catalog>>

\* The invocation returns its counts.
FinishPass(r) ==
  /\ run[r].pc = "loop"
  /\ run[r].due = {}
  /\ run' = [ run EXCEPT ![r] = IdleFrame ]
  /\ UNCHANGED <<now, schedules, calls, initiated, refreshVars, poller, catalog>>

AllIdle == \A r \in Runs : run[r].pc = "idle"

\* Invocations that may overlap: a tick does not wait for the previous
\* invocation, and every open tab runs its own poller.
Next ==
  \/ Tick
  \/ ScheduleCall
  \/ CancelSchedule
  \/ \E r \in Runs : StartPass(r)
  \/ \E r \in Runs : RequestAccepted(r)
  \/ \E r \in Runs : RequestFailed(r)
  \/ \E r \in Runs : RecordCall(r)
  \/ \E r \in Runs : UpdateSchedule(r)
  \/ \E r \in Runs : DeactivateSchedule(r)
  \/ \E r \in Runs : FinishPass(r)

Spec == Init /\ [][Next]_vars

\* A single poller whose invocations run one after another.
StartPassAlone(r) == AllIdle /\ StartPass(r)

NextSeq ==
  \/ Tick
  \/ ScheduleCall
  \/ CancelSchedule
  \/ \E r \in Runs : StartPassAlone(r)
  \/ \E r \in Runs : RequestAccepted(r)
  \/ \E r \in Runs : RequestFailed(r)
  \/ \E r \in Runs : RecordCall(r)
  \/ \E r \in Runs : UpdateSchedule(r)
  \/ \E r \in Runs : DeactivateSchedule(r)
  \/ \E r \in Runs : FinishPass(r)

SpecSeq == Init /\ [][NextSeq]_vars

(* ------------------------- a poller that goes on ----------------------- *)

\* The one-time schedules that are still to get their accepted call.
Outstanding ==
  Cardinality({ id \in DOMAIN schedules :
                  /\ schedules[id].type = "one-time"
                  /\ schedules[id].is_active = TRUE
                  /\ \A i \in DOMAIN initiated : initiated[i].schedule # id })

\* Room in the bounded call table for one more row besides the rows the
\* outstanding schedules will need.
RoomToSpare == Len(calls) + PendingRecords + Outstanding + 1 <= MaxCalls

\* A schedule is made while the call table has room for its call.
ScheduleCallWithRoom == RoomToSpare /\ ScheduleCall

\* An initiation fails while the call table has room for its failed row.
RequestFailedWithRoom(r) == RoomToSpare /\ RequestFailed(r)

\* A single poller that is never unmounted, schedules that are not
\* cancelled, and failures that are bounded by the room of the call table.
NextLive ==
  \/ Tick
  \/ ScheduleCallWithRoom
  \/ \E r \in Runs : StartPassAlone(r)
  \/ \E r \in Runs : RequestAccepted(r)
  \/ \E r \in Runs : RequestFailedWithRoom(r)
  \/ \E r \in Runs : RecordCall(r)
  \/ \E r \in Runs : UpdateSchedule(r)
  \/ \E r \in Runs : DeactivateSchedule(r)
  \/ \E r \in Runs : FinishPass(r)

\* The timer keeps firing, an invocation that has begun goes on to its
\* end, and the provider does not refuse for ever.
Fairness ==
  \A r \in Runs :
    /\ WF_vars(StartPassAlone(r))
    /\ SF_vars(RequestAccepted(r))
    /\ WF_vars(RecordCall(r))
    /\ WF_vars(UpdateSchedule(r))
    /\ WF_vars(DeactivateSchedule(r))
    /\ WF_vars(FinishPass(r))

SpecLive == Init /\ [][NextLive]_vars /\ Fairness

(* --------------------------- a failing store --------------------------- *)

\* Variant of createCall whose catch block repeats its insert until the
\* store takes it.
createCallWithStoreRetrying(table, params, resp, at, tryOk, catchOk) ==
  IF resp.ok /\ tryOk
    THEN repoCreateCall(table, AcceptedPayload(params, resp, at))
    ELSE repoCreateCall(table, FailedPayload(params))

\* vapiService.createCall when vapiRepository.createCall may fail: the
\* call table it leaves behind. tryOk: the store takes the insert of the
\* try block; catchOk: it takes the insert of the catch block. An insert
\* that the store reports as failed has stored nothing.
createCallWithStore(table, params, resp, at, tryOk, catchOk) ==
  IF resp.ok /\ tryOk
    THEN repoCreateCall(table, AcceptedPayload(params, resp, at))
    ELSE IF catchOk
      THEN repoCreateCall(table, FailedPayload(params))
      ELSE table

\* vapiService.createCall when vapiRepository.createCall may fail: the
\* error it throws to its caller, if any. The catch block rethrows what
\* it caught unless its own insert throws first.
createCallWithStoreThrown(resp, tryOk, catchOk) ==
  IF resp.ok /\ tryOk THEN None
  ELSE IF ~catchOk THEN Some("insert in catch")
  ELSE IF resp.ok THEN Some("insert")
  ELSE Some(resp.error)

\* createCall up to the provider's acceptance, while the number of
\* accepted requests is below the bound on call rows.
RequestAcceptedCapped(r) ==
  /\ Len(initiated) < MaxCalls
  /\ RequestAccepted(r)

\* createCall stores the call row in a store that may fail; a failure is
\* thrown to the executor, which counts it and goes on with the next
\* schedule.
RecordCallWithStore(r) ==
  /\ run[r].pc = "record"
  /\ \E tryOk \in BOOLEAN, catchOk \in BOOLEAN :
       LET frame == run[r]
           resp == Get(frame.resp)
           thrown == createCallWithStoreThrown(resp, tryOk, catchOk)
       IN /\ calls' = createCallWithStore(calls, CallParams(Get(frame.cur)), resp,
                                          now, tryOk, catchOk)
          /\ run' = [ run EXCEPT
                        ![r].thrown = thrown,
                        ![r].pc = IF thrown = None THEN "update" ELSE "loop",
                        ![r].cur = IF thrown = None THEN @ ELSE None,
                        ![r].resp = IF thrown = None THEN @ ELSE None,
                        ![r].failed = IF thrown = None THEN @ ELSE @ + 1 ]
  /\ UNCHANGED <<now, schedules, initiated, refreshVars, poller, catalog>>

\* A single poller over a store whose inserts into vapi_calls may fail.
NextStore ==
  \/ Tick
  \/ ScheduleCall
  \/ CancelSchedule
  \/ \E r \in Runs : StartPassAlone(r)
  \/ \E r \in Runs : RequestAcceptedCapped(r)
  \/ \E r \in Runs : RequestFailed(r)
  \/ \E r \in Runs : RecordCallWithStore(r)
  \/ \E r \in Runs : UpdateSchedule(r)
  \/ \E r \in Runs : DeactivateSchedule(r)
  \/ \E r \in Runs : FinishPass(r)

SpecStore == Init /\ [][NextStore]_vars

(* ------------------------ prompts and patients ------------------------- *)

\* What is left of a deleted row of vapi_calls.
DeletedCall == [ column \in DOMAIN CallDefaults |-> None ]

\* vapi_calls, "on delete cascade".
CascadeCalls(table, column, key) ==
  [ id \in DOMAIN table |->
      IF table[id][column] = Some(key) THEN DeletedCall ELSE table[id] ]

\* vapiRepository.deletePrompt: table vapi_prompts afterwards.
deletePrompt(cat, id) == [ cat EXCEPT !.prompts = @ \ {id} ]

\* patientRepository.delete: tables patients and vapi_prompts afterwards
\* (every prompt here belongs to the one patient).
deletePatient(cat, id) ==
  [ patients |-> cat.patients \ {id},
    prompts |-> IF id \in cat.patients THEN {} ELSE cat.prompts ]

\* vapiService.scheduleCall: the schedule table afterwards; it throws when
\* the patient or the prompt is not found.
scheduleCall(table, cat, payload) ==
  IF payload.patientId \notin cat.patients \/ payload.promptId \notin cat.prompts
    THEN table
    ELSE Append(table, createSchedule(payload))

\* handleScheduleCall for a one-time or recurring request with one of the
\* patient's prompts selected.
ScheduleCallFor(prompt) ==
  /\ Len(schedules) < MaxSchedules
  /\ \E payload \in FormSubmissions :
       schedules' =
         scheduleCall(schedules, catalog, [ payload EXCEPT !.promptId = prompt ])
  /\ UNCHANGED <<now, calls, initiated, run, refreshVars, poller, catalog>>

\* handleDeletePrompt: vapiRepository.deletePrompt and the cascade of the
\* schema. Taken between executor invocations.
DeletePrompt(id) ==
  /\ AllIdle
  /\ catalog' = deletePrompt(catalog, id)
  /\ schedules' = CascadeSchedules(schedules, "prompt_id", id)
  /\ calls' = CascadeCalls(calls, "prompt_id", id)
  /\ UNCHANGED <<now, initiated, run, refreshVars, poller>>

\* patientRepository.delete and the cascade of the schema. Taken between
\* executor invocations.
DeletePatient(id) ==
  /\ AllIdle
  /\ catalog' = deletePatient(catalog, id)
  /\ schedules' = CascadeSchedules(schedules, "patient_id", id)
  /\ calls' = CascadeCalls(calls, "patient_id", id)
  /\ UNCHANGED <<now, initiated, run, refreshVars, poller>>

\* The page with a single poller, and prompts and patients being deleted.
NextDelete ==
  \/ Tick
  \/ \E prompt \in Prompts : ScheduleCallFor(prompt)
  \/ CancelSchedule
  \/ \E id \in Prompts : DeletePrompt(id)
  \/ \E id \in Patients : DeletePatient(id)
  \/ \E r \in Runs : StartPassAlone(r)
  \/ \E r \in Runs : RequestAccepted(r)
  \/ \E r \in Runs : RequestFailed(r)
  \/ \E r \in Runs : RecordCall(r)
  \/ \E r \in Runs : UpdateSchedule(r)
  \/ \E r \in Runs : DeactivateSchedule(r)
  \/ \E r \in Runs : FinishPass(r)

SpecDelete == Init /\ [][NextDelete]_vars

(* --------------------------- the schedule form ------------------------- *)

\* The dates the form works with: a calendar day, and the hour and the
\* minute of the day. The form offers the days FormDays, the blocks of the
\* hours FormHours, and the minutes CustomMinutes for a custom time.
FormDays == {0, 1}
FormHours == {9}
CustomMinutes == {0, 10, 30}
FormToday == 0
FormDate(day, hour, minute) == [ day |-> day, hour |-> hour, minute |-> minute ]

\* getTimeBlocks: the 30-minute blocks of the picker (hour and minute).
getTimeBlocks == { [ hour |-> h, minute |-> m ] : h \in FormHours, m \in {0, 30} }

roundTo30Minutes(date) == [ date EXCEPT !.minute = (@ \div 30) * 30 ]
isSameDay(a, b) == a.day = b.day

\* vapiRepository.listSchedules: the schedules of a patient.
listSchedules(table, patientId) ==
  { mapSchedule(id, table[id]) :
      id \in { i \in ScheduleRecords(table) : table[i].patient_id = patientId } }

\* Variant of isTimeBlockOccupied that finds every block free.
isTimeBlockOccupiedNever(date, timeBlock, existingSchedules) == FALSE

\* isTimeBlockOccupied.
isTimeBlockOccupied(date, timeBlock, existingSchedules) ==
  \E schedule \in existingSchedules :
    /\ schedule.isActive
    /\ schedule.type = "one-time"
    /\ schedule.scheduledTime # None
    /\ LET scheduleDate == Get(schedule.scheduledTime)
       IN /\ isSameDay(date, scheduleDate)
          /\ scheduleDate.hour = timeBlock.hour
          /\ (scheduleDate.minute \div 30) * 30 = timeBlock.minute

\* The prompts selected in the form, in the order of their selection.
PromptSelections ==
  { <<p>> : p \in Prompts }
  \cup { <<pq[1], pq[2]>> : pq \in { x \in Prompts \X Prompts : x[1] # x[2] } }

\* handleSubmit: selectedPromptIds.forEach(onSubmit), each ending in
\* vapiService.scheduleCall.
RECURSIVE SubmitEach(_, _, _, _)
SubmitEach(table, cat, selection, request) ==
  IF selection = <<>> THEN table
  ELSE SubmitEach(scheduleCall(table, cat, [ request EXCEPT !.promptId = Head(selection) ]),
                  cat, Tail(selection), request)

OneTimeRequest(date) ==
  [ patientId |-> ThePatient, promptId |-> ThePrompt, type |-> "one-time",
    scheduledTime |-> Some(date), recurrenceType |-> None, dayOfWeek |-> None ]

RecurringRequest(date, recurrenceType, dayOfWeek) ==
  [ patientId |-> ThePatient, promptId |-> ThePrompt, type |-> "recurring",
    scheduledTime |-> Some(date), recurrenceType |-> Some(recurrenceType),
    dayOfWeek |-> IF recurrenceType = "weekly" THEN Some(dayOfWeek) ELSE None ]

\* handleSubmit for a one-time call with a block of the picker: only a
\* block that is not occupied can be clicked.
SubmitBlock(selection) ==
  /\ Len(schedules) + Len(selection) <= MaxSchedules
  /\ \E day \in FormDays, block \in getTimeBlocks :
       /\ ~isTimeBlockOccupied(FormDate(day, 0, 0), block,
                               listSchedules(schedules, ThePatient))
       /\ schedules' =
            SubmitEach(schedules, catalog, selection,
                       OneTimeRequest(roundTo30Minutes(
                         FormDate(day, block.hour, block.minute))))
  /\ UNCHANGED <<now, calls, initiated, run, refreshVars, poller, catalog>>

\* handleSubmit for a one-time call with a custom time.
SubmitCustom(selection) ==
  /\ Len(schedules) + Len(selection) <= MaxSchedules
  /\ \E day \in FormDays, hour \in FormHours, minute \in CustomMinutes :
       schedules' =
         SubmitEach(schedules, catalog, selection,
                    OneTimeRequest(FormDate(day, hour, minute)))
  /\ UNCHANGED <<now, calls, initiated, run, refreshVars, poller, catalog>>

\* handleSubmit for a recurring call: today's date with the chosen time.
SubmitRecurring(selection) ==
  /\ Len(schedules) + Len(selection) <= MaxSchedules
  /\ \E hour \in FormHours, minute \in CustomMinutes,
        recurrenceType \in {"daily", "weekly"}, dayOfWeek \in {0, 1} :
       schedules' =
         SubmitEach(schedules, catalog, selection,
                    RecurringRequest(FormDate(FormToday, hour, minute),
                                     recurrenceType, dayOfWeek))
  /\ UNCHANGED <<now, calls, initiated, run, refreshVars, poller, catalog>>

\* The schedule form and the list of schedules next to it.
NextForm ==
  \/ \E selection \in PromptSelections : SubmitBlock(selection)
  \/ \E selection \in PromptSelections : SubmitCustom(selection)
  \/ \E selection \in PromptSelections : SubmitRecurring(selection)
  \/ CancelSchedule

SpecForm == Init /\ [][NextForm]_vars

(* ------------------------------ the poller ----------------------------- *)

\* The first free frame takes a new invocation.
FirstFree(r) ==
  /\ run[r].pc = "idle"
  /\ \A q \in Runs : q < r => run[q].pc # "idle"

\* executeScheduledCalls is called: the invocation has begun and has not
\* read the schedules yet.
BegunFrame(at) == [ IdleFrame EXCEPT !.pc = "start", !.at = at ]

\* Variant of the catch block in which an error clears the timer.
AfterInvocationErrorStopping(p) == [ p EXCEPT !.armed = FALSE ]

\* The catch block of executeScheduledCalls: the error is logged, the
\* poller is as it was.
AfterInvocationError(p) == p

\* The timer callback: whether a tick that fires calls the executor.
\* setInterval calls executeScheduledCalls whatever the earlier
\* invocations are doing.
TimerStarts(frames) == TRUE

\* The effect runs: an invocation at once, and the timer is set.
Mount ==
  /\ poller.mounted = "no"
  /\ \E r \in Runs :
       /\ FirstFree(r)
       /\ run' = [ run EXCEPT ![r] = BegunFrame(now) ]
  /\ poller' = [ poller EXCEPT !.mounted = "yes", !.armed = TRUE, !.started = @ + 1 ]
  /\ UNCHANGED <<now, schedules, calls, initiated, refreshVars, catalog>>

\* The interval timer fires.
TimerFires ==
  /\ poller.armed
  /\ poller.ticks < MaxTicks
  /\ IF TimerStarts(run)
       THEN /\ \E r \in Runs :
                 /\ FirstFree(r)
                 /\ run' = [ run EXCEPT ![r] = BegunFrame(now) ]
            /\ poller' = [ poller EXCEPT !.ticks = @ + 1, !.started = @ + 1 ]
       ELSE /\ run' = run
            /\ poller' = [ poller EXCEPT !.ticks = @ + 1 ]
  /\ UNCHANGED <<now, schedules, calls, initiated, refreshVars, catalog>>

\* The effect's cleanup: clearInterval. Invocations that run go on.
Unmount ==
  /\ poller.mounted = "yes"
  /\ poller' = [ poller EXCEPT !.mounted = "gone", !.armed = FALSE ]
  /\ UNCHANGED <<now, schedules, calls, initiated, run, refreshVars, catalog>>

\* The invocation reads the due schedules.
ReadDue(r) ==
  /\ run[r].pc = "start"
  /\ run' = [ run EXCEPT ![r] = StartPassFrame(schedules, now) ]
  /\ UNCHANGED <<now, schedules, calls, initiated, refreshVars, poller, catalog>>

\* The read of the due schedules fails: the invocation throws, and the
\* poller catches and logs the error.
ReadThrows(r) ==
  /\ run[r].pc = "start"
  /\ run' = [ run EXCEPT ![r] = [ IdleFrame EXCEPT !.thrown = Some("store") ] ]
  /\ poller' = AfterInvocationError(poller)
  /\ UNCHANGED <<now, schedules, calls, initiated, refreshVars, catalog>>

\* The page with its poller as the code runs it: schedules are made and
\* the poller executes them.
NextPoller ==
  \/ Tick
  \/ ScheduleCall
  \/ Mount
  \/ TimerFires
  \/ Unmount
  \/ \E r \in Runs : ReadDue(r)
  \/ \E r \in Runs : ReadThrows(r)
  \/ \E r \in Runs : RequestAccepted(r)
  \/ \E r \in Runs : RequestFailed(r)
  \/ \E r \in Runs : RecordCall(r)
  \/ \E r \in Runs : UpdateSchedule(r)
  \/ \E r \in Runs : DeactivateSchedule(r)
  \/ \E r \in Runs : FinishPass(r)

SpecPoller == Init /\ [][NextPoller]_vars

(* ------------------------------- the page ------------------------------ *)

\* What the page hands to handleScheduleCall for a call to be made now.
NowRequest ==
  [ patientId |-> ThePatient, promptId |-> ThePrompt, type |-> "now",
    scheduledTime |-> None, recurrenceType |-> None, dayOfWeek |-> None ]

\* Variant of handleScheduleCall without the branch on type "now".
handleScheduleCallAlwaysStored(table, request) ==
  Append(table, createSchedule(request))

\* handleScheduleCall: the schedule table it leaves behind.
handleScheduleCall(table, request) ==
  IF request.type = "now"
    THEN table
    ELSE Append(table, createSchedule(request))

\* Statuses the provider may report in the answer that accepts a call.
AcceptanceStatuses ==
  { None, Some("queued"), Some("ended"), Some("in-progress"), Some("running"),
    Some("live"), Some("completed"), Some("finished"), Some("failed"),
    Some("error") }

\* What createCall can meet when the page calls it.
PageAnswers ==
  { Accepted(Len(initiated) + 1, status) : status \in AcceptanceStatuses }
  \cup { Failed(kind) : kind \in FailureKinds }

\* handleScheduleCall for a request of type now (handleCallNow does the
\* same): vapiService.createCall at once; an error ends in a toast.
ScheduleCallNow ==
  /\ Len(calls) + PendingRecords < MaxCalls
  /\ \E resp \in PageAnswers :
       /\ schedules' = handleScheduleCall(schedules, NowRequest)
       /\ calls' = createCallRecord(calls, CallParams(NowRequest), resp, now)
       /\ initiated' =
            IF resp.ok
              THEN Append(initiated, [ schedule |-> 0, at |-> now,
                                       status |-> resp.status ])
              ELSE initiated
  /\ UNCHANGED <<now, run, refreshVars, poller, catalog>>

\* The page with a single poller: calls made now, schedules, passes.
NextPage ==
  \/ ScheduleCallNow
  \/ NextSeq

SpecPage == Init /\ [][NextPage]_vars

(* ------------------- schedule operations in any order ------------------ *)

\* The updates a caller may hand to vapiRepository.updateSchedule.
UpdateArguments ==
  [ scheduledTime : {None} \cup { Some(t) : t \in Times },
    lastExecutedAt : {None} \cup { Some(t) : t \in Times } ]

\* vapiRepository.updateSchedule for any row and any updates.
UpdateAnySchedule ==
  /\ \E id \in ScheduleRecords(schedules), updates \in UpdateArguments :
       schedules' = [ schedules EXCEPT ![id] = updateSchedule(@, updates) ]
  /\ UNCHANGED <<now, calls, initiated, run, refreshVars, poller, catalog>>

\* vapiRepository.deactivateSchedule for any row.
DeactivateAnySchedule ==
  /\ \E id \in ScheduleRecords(schedules) :
       schedules' = [ schedules EXCEPT ![id] = deactivateSchedule(@) ]
  /\ UNCHANGED <<now, calls, initiated, run, refreshVars, poller, catalog>>

\* The operations on schedules, called in any order with any arguments.
NextOps ==
  \/ Tick
  \/ ScheduleCall
  \/ CancelSchedule
  \/ UpdateAnySchedule
  \/ DeactivateAnySchedule

SpecOps == Init /\ [][NextOps]_vars

(* -------------------------- missing references ------------------------- *)

\* Variant of the lookup that takes every patient and prompt as found.
createCallLookupThrownNever(cat, params) == None

\* vapiService.createCall, before its try block: the error it throws when
\* the patient or the prompt is not found.
createCallLookupThrown(cat, params) ==
  IF params.patientId \notin cat.patients \/ params.promptId \notin cat.prompts
    THEN Some("Patient or prompt not found")
    ELSE None

\* vapiService.createCall from its first line: the call table it leaves
\* behind when the provider would answer `resp`.
createCallChecked(table, cat, params, resp, at) ==
  IF createCallLookupThrown(cat, params) # None
    THEN table
    ELSE createCallRecord(table, params, resp, at)

\* vapiService.createCall from its first line: the error it throws.
createCallCheckedThrown(cat, params, resp) ==
  IF createCallLookupThrown(cat, params) # None
    THEN createCallLookupThrown(cat, params)
    ELSE createCallThrown(resp)

\* vapiService.createCall from its first line: the calls the provider has
\* accepted afterwards.
createCallInitiated(log, cat, params, resp, entry) ==
  IF createCallLookupThrown(cat, params) = None /\ resp.ok
    THEN Append(log, entry)
    ELSE log

\* What createCall can meet when the page calls it for a prompt: the
\* provider accepts or rejects.
NowAnswers == { Accepted(Len(initiated) + 1, Some("queued")), Failed("rejected") }

\* No invocation is inside a call attempt.
BetweenAttempts == \A r \in Runs : run[r].pc \in {"idle", "loop"}

\* handleDeletePrompt while an invocation may hold schedules it has read.
DeletePromptMidPass(id) ==
  /\ BetweenAttempts
  /\ catalog' = deletePrompt(catalog, id)
  /\ schedules' = CascadeSchedules(schedules, "prompt_id", id)
  /\ calls' = CascadeCalls(calls, "prompt_id", id)
  /\ UNCHANGED <<now, initiated, run, refreshVars, poller>>

\* patientRepository.delete while an invocation may hold schedules it has
\* read.
DeletePatientMidPass(id) ==
  /\ BetweenAttempts
  /\ catalog' = deletePatient(catalog, id)
  /\ schedules' = CascadeSchedules(schedules, "patient_id", id)
  /\ calls' = CascadeCalls(calls, "patient_id", id)
  /\ UNCHANGED <<now, initiated, run, refreshVars, poller>>

\* createCall for a schedule the invocation has read whose patient or
\* prompt is gone: it throws before its try block, the executor counts the
\* failure and goes on with the next schedule.
AttemptUnresolved(r) ==
  /\ run[r].pc = "loop"
  /\ \E s \in run[r].due, resp \in NowAnswers :
       LET thrown == createCallLookupThrown(catalog, CallParams(s)) IN
       /\ thrown # None
       /\ calls' = createCallChecked(calls, catalog, CallParams(s), resp, now)
       /\ run' = [ run EXCEPT ![r].due = @ \ {s}, ![r].thrown = thrown,
                               ![r].failed = @ + 1 ]
  /\ UNCHANGED <<now, schedules, initiated, refreshVars, poller, catalog>>

\* createCall for a schedule whose patient and prompt are found, up to the
\* provider's answer.
RequestAcceptedResolved(r) ==
  /\ RequestAccepted(r)
  /\ createCallLookupThrown(catalog, CallParams(Get(run'[r].cur))) = None

RequestFailedResolved(r) ==
  /\ RequestFailed(r)
  /\ createCallLookupThrown(catalog, CallParams(Get(run'[r].cur))) = None

\* handleCallNow with the prompt the page has selected, which may have been
\* deleted since the page read it: vapiService.createCall; an error ends in
\* a toast.
CallNowFor(prompt) ==
  /\ Len(calls) + PendingRecords < MaxCalls
  /\ \E resp \in NowAnswers :
       LET params == [ CallParams(NowRequest) EXCEPT !.promptId = prompt ] IN
       /\ calls' = createCallChecked(calls, catalog, params, resp, now)
       /\ initiated' =
            createCallInitiated(initiated, catalog, params, resp,
                                [ schedule |-> 0, at |-> now, status |-> resp.status ])
  /\ UNCHANGED <<now, schedules, run, refreshVars, poller, catalog>>

\* The page with a single poller, calls made now, and prompts and patients
\* deleted while schedules and calls are being made for them.
NextMissing ==
  \/ Tick
  \/ \E prompt \in Prompts : ScheduleCallFor(prompt)
  \/ \E prompt \in Prompts : CallNowFor(prompt)
  \/ \E id \in Prompts : DeletePromptMidPass(id)
  \/ \E id \in Patients : DeletePatientMidPass(id)
  \/ \E r \in Runs : StartPassAlone(r)
  \/ \E r \in Runs : AttemptUnresolved(r)
  \/ \E r \in Runs : RequestAcceptedResolved(r)
  \/ \E r \in Runs : RequestFailedResolved(r)
  \/ \E r \in Runs : RecordCall(r)
  \/ \E r \in Runs : UpdateSchedule(r)
  \/ \E r \in Runs : DeactivateSchedule(r)
  \/ \E r \in Runs : FinishPass(r)

SpecMissing == Init /\ [][NextMissing]_vars

(* ---------------------------- phone numbers ---------------------------- *)

\* A phone number is a sequence of characters. The numbers tried have up
\* to MaxDigits digits after their prefix.
MaxDigits == 12
DigitChars == {"0", "1", "2", "3", "4", "5", "6", "7", "8", "9"}
IsDigit(c) == c \in DigitChars

\* n digits, none of them a 1.
Run(n) == [ i \in 1..n |-> "5" ]

\* How the number a patient has on file may begin, and how it may go on:
\* digits only, or digits with a separator after the third.
PhonePrefixes ==
  { <<>>, <<"+">>, <<"+", "1">>, <<"1">>, <<"1", "-">>, <<"+", "4">>, <<"(">> }
PhoneBodies ==
  { Run(n) : n \in 0..MaxDigits }
  \cup { Run(3) \o <<"-">> \o Run(n - 3) : n \in 3..MaxDigits }
PhoneInputs == { prefix \o body : prefix \in PhonePrefixes, body \in PhoneBodies }

\* String.prototype.startsWith.
StartsWith(s, prefix) ==
  Len(s) >= Len(prefix) /\ SubSeq(s, 1, Len(prefix)) = prefix

\* phone.replace(/\D/g, "").
DigitsOf(phone) == SelectSeq(phone, IsDigit)

\* Variant of formatPhoneToE164 whose default puts "+" before the digits.
formatPhoneToE164PlusOnly(phone) ==
  LET digits == DigitsOf(phone) IN
  IF Len(digits) = 10 THEN <<"+", "1">> \o digits
  ELSE IF Len(digits) = 11 /\ StartsWith(phone, <<"+", "1">>) THEN phone
  ELSE IF Len(digits) = 11 /\ StartsWith(digits, <<"1">>) THEN <<"+">> \o digits
  ELSE <<"+">> \o digits

\* formatPhoneToE164.
formatPhoneToE164(phone) ==
  LET digits == DigitsOf(phone) IN
  IF Len(digits) = 10 THEN <<"+", "1">> \o digits
  ELSE IF Len(digits) = 11 /\ StartsWith(phone, <<"+", "1">>) THEN phone
  ELSE IF Len(digits) = 11 /\ StartsWith(digits, <<"1">>) THEN <<"+">> \o digits
  ELSE <<"+", "1">> \o digits

\* The page with a patient whose number on file is any of the inputs
\* (selectedPatient.phone || "").
InitPhone ==
  /\ now = 0
  /\ schedules = <<>>
  /\ calls = <<>>
  /\ initiated = <<>>
  /\ run = [ r \in Runs |-> IdleFrame ]
  /\ poller = IdlePoller
  /\ catalog \in { [ patients |-> Patients, prompts |-> Prompts, phone |-> phone ]
                   : phone \in PhoneInputs }
  /\ remote = InitialDetails(None)
  /\ changes = 0
  /\ rf = [ q \in Refreshers |-> IdleRefresh ]

\* handleCallNow: the number on file is formatted and handed to
\* vapiService.createCall, which stores it with the call.
CallNowWithPhone ==
  /\ Len(calls) < MaxCalls
  /\ \E resp \in NowAnswers :
       LET params == [ CallParams(NowRequest) EXCEPT
                         !.phoneNumber = formatPhoneToE164(catalog.phone) ]
       IN /\ calls' = createCallRecord(calls, params, resp, now)
          /\ initiated' =
               IF resp.ok
                 THEN Append(initiated, [ schedule |-> 0, at |-> now,
                                          status |-> resp.status ])
                 ELSE initiated
  /\ UNCHANGED <<now, schedules, run, refreshVars, poller, catalog>>

\* The formatted number is put on file: the next call formats the output
\* of formatPhoneToE164.
KeepFormatted ==
  /\ Len(catalog.phone) <= MaxDigits + 2
  /\ catalog' = [ catalog EXCEPT !.phone = formatPhoneToE164(@) ]
  /\ UNCHANGED <<now, schedules, calls, initiated, run, refreshVars, poller>>

NextPhone ==
  \/ CallNowWithPhone
  \/ KeepFormatted

SpecPhone == InitPhone /\ [][NextPhone]_vars

(* --------------------------- reconciliation ---------------------------- *)

ApiStatuses ==
  { None, Some("queued"), Some("in-progress"), Some("ended"),
    Some("completed"), Some("failed") }
IsoTimes == {None} \cup { Some(ToISOString(t)) : t \in Times }
Durations == { None, Some(0), Some(5) }
Urls == { None, Some(""), Some("url-a"), Some("url-b") }
Texts == { None, Some("a"), Some("b") }
RawTranscripts ==
  { None,
    Some(RawText),
    Some(RawArray(<< RawString("hello"),
                     RawNumber,
                     RawObject(Some("user"), None, Some(StrVal("hi")), None, Some(125)) >>)),
    Some(RawArray(<< RawObject(Some("bot"), None, Some(StrVal("")), Some(StrVal("x")), None),
                     RawNumber >>)),
    Some(RawHolder(None, Some(<< RawObject(None, Some("AI"), None,
                                           Some(NestedVal("yo")), None) >>))) }

\* The provider's answer with one key of its artifact or analysis changed.
WithArtifact(d, key, value) ==
  [ d EXCEPT !.artifact =
      Some([ Get(Coalesce(@, Some(EmptyArtifact))) EXCEPT ![key] = value ]) ]
WithAnalysis(d, key, value) ==
  [ d EXCEPT !.analysis =
      Some([ Get(Coalesce(@, Some(EmptyAnalysis))) EXCEPT ![key] = value ]) ]

\* The answers the provider may give after one more change.
NextDetails(d) ==
  ( { [ d EXCEPT !.status = v ] : v \in ApiStatuses }
    \cup { [ d EXCEPT !.startedAt = v ] : v \in IsoTimes }
    \cup { [ d EXCEPT !.completedAt = v ] : v \in IsoTimes }
    \cup { [ d EXCEPT !.duration = v ] : v \in Durations }
    \cup { [ d EXCEPT !.artifact = None ], [ d EXCEPT !.analysis = None ] }
    \cup { WithArtifact(d, key, v) :
             key \in {"recording", "logUrl", "transcriptUrl"}, v \in Urls }
    \cup { WithArtifact(d, key, v) :
             key \in {"transcript", "messages", "messagesOpenAIFormatted"},
             v \in RawTranscripts }
    \cup { WithAnalysis(d, key, v) :
             key \in {"summary", "structuredData", "successEvaluation"},
             v \in Texts } )
  \ {d}

\* The state after a call made from the page (handleCallNow): createCall
\* has stored its row, or there is no call row at all.
InitRefresh ==
  /\ now = 0
  /\ schedules = <<>>
  /\ run = [ r \in Runs |-> IdleFrame ]
  /\ poller = IdlePoller
  /\ catalog = FullCatalog
  /\ changes = 0
  /\ rf = [ p \in Refreshers |-> IdleRefresh ]
  /\ \/ /\ calls = <<>>
        /\ initiated = <<>>
        /\ remote = InitialDetails(None)
     \/ \E kind \in FailureKinds :
          /\ calls = createCallRecord(<<>>, CallParams(
                        [ patientId |-> ThePatient, promptId |-> ThePrompt ]),
                        Failed(kind), now)
          /\ initiated = <<>>
          /\ remote = InitialDetails(None)
     \/ \E status \in InitiationStatuses :
          /\ calls = createCallRecord(<<>>, CallParams(
                        [ patientId |-> ThePatient, promptId |-> ThePrompt ]),
                        Accepted(1, Some(status)), now)
          /\ initiated = << [ schedule |-> 0, at |-> now, status |-> Some(status) ] >>
          /\ remote = InitialDetails(Some(status))

\* The provider's record of the call changes in one key.
ProviderChange ==
  /\ initiated # <<>>
  /\ changes < MaxChanges
  /\ changes' = changes + 1
  /\ \E d \in NextDetails(remote) : remote' = d
  /\ UNCHANGED <<now, schedules, calls, initiated, run, rf, poller, catalog>>

\* Variant of the checks of refreshCallDetails without the one on
\* providerCallId: the request goes out and the provider rejects it.
RefreshErrorUnguarded(table, callId) ==
  IF callId \notin DOMAIN table THEN "Call not found"
  ELSE "Failed to fetch call details"

\* The error refreshCallDetails throws before it stores anything.
RefreshError(table, callId) ==
  IF callId \notin DOMAIN table THEN "Call not found"
  ELSE IF table[callId].provider_call_id = None THEN "no Vapi call ID"
  ELSE "Failed to fetch call details"

\* Whether refreshCallDetails had sent its request when it threw: only
\* the provider's non-2xx answer comes after the fetch.
RefreshFetched(error) == error = "Failed to fetch call details"

\* refreshCallDetails up to the provider's answer: the call is read, and
\* the provider answers with its current record.
\* Invocations are interchangeable: a new one takes the first free frame.
RefreshRead(p) ==
  /\ rf[p].pc = "idle"
  /\ \A q \in Refreshers : q < p => rf[q].pc # "idle"
  /\ \E callId \in DOMAIN calls :
       /\ calls[callId].provider_call_id # None
       /\ rf' = [ rf EXCEPT ![p] = [ pc |-> "write", callId |-> callId,
                                     local |-> Some(mapCall(callId, calls[callId])),
                                     data |-> Some(remote), thrown |-> None,
                                     fetched |-> TRUE ] ]
  /\ UNCHANGED <<now, schedules, calls, initiated, run, remote, changes, poller, catalog>>

\* refreshCallDetails throws: no such call, no provider id, or a non-2xx
\* answer of the provider.
RefreshThrows(p) ==
  /\ rf[p].pc = "idle"
  /\ \A q \in Refreshers : q < p => rf[q].pc # "idle"
  /\ \E callId \in 1..MaxCalls :
       rf' = [ rf EXCEPT ![p] =
                 [ IdleRefresh EXCEPT !.callId = callId,
                                      !.thrown = Some(RefreshError(calls, callId)),
                                      !.fetched = RefreshFetched(RefreshError(calls, callId)) ] ]
  /\ UNCHANGED <<now, schedules, calls, initiated, run, remote, changes, poller, catalog>>

\* refreshCallDetails stores the merged call: vapiRepository.updateCall.
\* The returned invocation keeps the id and the answer it has merged.
RefreshWrite(p) ==
  /\ rf[p].pc = "write"
  /\ calls' = refreshCallDetails(calls, rf[p].callId, Get(rf[p].local), Get(rf[p].data))
  /\ rf' = [ rf EXCEPT ![p] = [ IdleRefresh EXCEPT !.callId = rf[p].callId,
                                                   !.data = rf[p].data,
                                                   !.fetched = TRUE ] ]
  /\ UNCHANGED <<now, schedules, initiated, run, remote, changes, poller, catalog>>

NoRefresh == \A p \in Refreshers : rf[p].pc = "idle"

NextRefresh ==
  \/ ProviderChange
  \/ \E p \in Refreshers : RefreshRead(p)
  \/ \E p \in Refreshers : RefreshThrows(p)
  \/ \E p \in Refreshers : RefreshWrite(p)

\* Refreshes of a call that may overlap.
SpecRefresh == InitRefresh /\ [][NextRefresh]_vars

\* Refreshes that run one after another.
RefreshReadAlone(p) == NoRefresh /\ RefreshRead(p)
RefreshThrowsAlone(p) == NoRefresh /\ RefreshThrows(p)

NextRefreshSeq ==
  \/ ProviderChange
  \/ \E p \in Refreshers : RefreshReadAlone(p)
  \/ \E p \in Refreshers : RefreshThrowsAlone(p)
  \/ \E p \in Refreshers : RefreshWrite(p)

SpecRefreshSeq == InitRefresh /\ [][NextRefreshSeq]_vars

(* ------------------------- scheduler properties ------------------------ *)

ScheduleIds == DOMAIN schedules

\* The ids of the schedules the due check reports at the current instant.
DueIds == { s.id : s \in listDueSchedules(schedules, now) }

\* The provider initiations made for a schedule.
InitiationsOf(id) ==
  Cardinality({ i \in DOMAIN initiated : initiated[i].schedule = id })

\* An invocation is between the provider's answer for the schedule and the
\* end of its handling of that schedule.
InHand(id) == \E r \in Runs : run[r].cur # None /\ Get(run[r].cur).id = id

AttemptFails(r) ==
  /\ run[r].pc = "record"
  /\ ~Get(run[r].resp).ok
  /\ run'[r] # run[r]

\* The executor changes the execution fields of a schedule row.
Stamps(id) ==
  /\ run' # run
  /\ \/ schedules'[id].last_executed_at # schedules[id].last_executed_at
     \/ schedules'[id].is_active # schedules[id].is_active

\* C2: a failed provider initiation leaves the schedule's lastExecutedAt
\* and isActive as they were, the attempt is over for this pass, and the
\* schedule, if it was due, is still reported due; the executor changes
\* lastExecutedAt or isActive only for a schedule whose initiation the
\* provider has accepted.
C2_FailureLeavesScheduleDue ==
  [][ /\ \A r \in Runs :
           AttemptFails(r) =>
             LET id == Get(run[r].cur).id IN
             /\ schedules'[id] = schedules[id]
             /\ run'[r].pc = "loop"
             /\ id \in DueIds => id \in DueIds'
      /\ \A id \in ScheduleIds :
           Stamps(id) =>
             \E r \in Runs : /\ run[r].cur # None
                             /\ Get(run[r].cur).id = id
                             /\ Get(run[r].resp).ok ]_vars

\* An initiation has failed, and the schedule is untouched and due.
C2_Witness ==
  \E id \in ScheduleIds, r \in Runs :
    /\ run[r].pc = "loop" /\ run[r].failed = 1 /\ run[r].thrown # None
    /\ calls # <<>> /\ calls[Len(calls)].status = Some("failed")
    /\ InitiationsOf(id) = 0
    /\ schedules[id].is_active = TRUE /\ schedules[id].last_executed_at = None
    /\ id \in DueIds
    /\ \A other \in ScheduleIds : other = id

Days == { DayOf(t) : t \in Times }

\* The provider initiations made for a schedule on a calendar day.
InitiationsOn(id, day) ==
  Cardinality({ i \in DOMAIN initiated :
                  initiated[i].schedule = id /\ DayOf(initiated[i].at) = day })

\* C4: a recurring schedule leads to at most one provider initiation on
\* any calendar day, whether or not executor invocations overlap.
C4_RecurringAtMostOncePerDay ==
  \A id \in ScheduleIds :
    schedules[id].type = "recurring" =>
      \A day \in Days : InitiationsOn(id, day) <= 1

\* An active daily schedule whose time of day has passed, and an
\* invocation that started after it without anything to initiate.
C4_Witness ==
  \E id \in ScheduleIds, r \in Runs :
    /\ schedules[id].type = "recurring"
    /\ schedules[id].recurrence_type = Some("daily")
    /\ schedules[id].is_active = TRUE
    /\ run[r].pc = "loop" /\ run[r].due = {}
    /\ run[r].at > ParseDate(Get(schedules[id].scheduled_time))
    /\ \A day \in Days : InitiationsOn(id, day) = 0

\* An invocation starts: it reads the due schedules.
PassStarts(r) == run[r].pc = "idle" /\ run'[r].pc = "loop"

\* C5: an inactive schedule is never reported due. A cancelled schedule
\* stays inactive, an invocation that starts reads only schedules that are
\* active at that moment, and a call is initiated only for a schedule the
\* invocation has read: no invocation that starts after the cancellation
\* initiates a call for the schedule.
C5_InactiveNeverDue ==
  /\ [](\A id \in ScheduleIds : schedules[id].is_active = FALSE => id \notin DueIds)
  /\ [][ /\ \A id \in ScheduleIds :
              /\ schedules[id].is_active = FALSE => schedules'[id].is_active = FALSE
              /\ (cancelScheduleResult(schedules, id)
                   /\ schedules' = cancelSchedule(schedules, id))
                    => schedules'[id].is_active = FALSE
         /\ \A r \in Runs :
              PassStarts(r) =>
                \A s \in run'[r].due : schedules[s.id].is_active = TRUE
         /\ initiated' # initiated =>
              \E r \in Runs : \E s \in run[r].due :
                s.id = initiated'[Len(initiated')].schedule ]_vars

\* A schedule that is past its time was cancelled before any attempt, and
\* an invocation that read the schedules found nothing to initiate.
C5_Witness ==
  \E id \in ScheduleIds, r \in Runs :
    /\ schedules[id].type = "one-time"
    /\ schedules[id].is_active = FALSE
    /\ schedules[id].last_executed_at = None
    /\ schedules[id].scheduled_time # None
    /\ ParseDate(Get(schedules[id].scheduled_time)) <= run[r].at
    /\ run[r].pc = "loop" /\ run[r].due = {}
    /\ run[r].executed = 0 /\ run[r].failed = 0
    /\ calls = <<>> /\ initiated = <<>>

ExecutionEnds(r) == run[r].pc = "deactivate" /\ run'[r] # run[r]

C8_WeeklyOnlyOnItsWeekday ==
  /\ \A s \in listDueSchedules(schedules, now) :
       s.recurrenceType = Some("weekly") => s.dayOfWeek = Some(WeekdayOf(now))
  /\ \A r \in Runs : \A s \in run[r].due :
       s.recurrenceType = Some("weekly") => s.dayOfWeek = Some(WeekdayOf(run[r].at))

\* An active weekly schedule is checked on a day that is not its weekday
\* and is not reported due.
C8_Witness ==
  \E id \in ScheduleIds, r \in Runs :
    /\ schedules[id].recurrence_type = Some("weekly")
    /\ schedules[id].is_active = TRUE
    /\ schedules[id].day_of_week # Some(WeekdayOf(now))
    /\ ParseDate(Get(schedules[id].scheduled_time)) <= now
    /\ run[r].pc = "loop" /\ run[r].at = now
    /\ id \notin DueIds
    /\ \A s \in run[r].due : s.id # id

(* ----------------------- reconciliation properties --------------------- *)

\* An invocation of refreshCallDetails stores its merged call.
RefreshStores(p) == rf[p].pc = "write" /\ rf'[p].pc = "idle"

\* C9: with refreshes run one after another, a second refresh of a call
\* against the same answer of the provider leaves the call table as the
\* first refresh left it.
C9_RefreshIsIdempotent ==
  [][ \A p \in Refreshers :
        RefreshStores(p) =>
          LET id == rf[p].callId
              data == Get(rf[p].data)
          IN refreshCallDetails(calls', id, mapCall(id, calls'[id]), data) = calls' ]_vars

\* A refresh has merged an answer with a transcript into a call that
\* already had stored details, and a further refresh changes nothing.
C9_Witness ==
  \E p \in Refreshers :
    /\ rf[p].pc = "idle" /\ rf[p].data # None
    /\ LET id == rf[p].callId
           data == Get(rf[p].data)
       IN /\ extractTranscriptFromArtifact(data.artifact).entries # None
          /\ calls[id].transcript_entries # None
          /\ calls[id].duration # None
          /\ refreshCallDetails(calls, id, mapCall(id, calls[id]), data) = calls

\* The value of an optional field after a merge: the provider's value when
\* its answer carries one, the stored value otherwise.
Merged(incoming, stored) == IF incoming # None THEN incoming ELSE stored

\* C10: with refreshes run one after another, after a refresh each of
\* startedAt, completedAt, duration, the three artifact URLs and the three
\* analysis fields holds the provider's value when the answer carries one
\* and the previously stored value otherwise; an answer without
\* artifact.recording leaves the stored recording URL in place.
C10_FieldwiseMerge ==
  [][ \A p \in Refreshers :
        RefreshStores(p) =>
          LET id == rf[p].callId
              data == Get(rf[p].data)
              old == mapCall(id, calls[id])
              new == mapCall(id, calls'[id])
          IN /\ new.startedAt = Merged(OptDate(data.startedAt), old.startedAt)
             /\ new.completedAt = Merged(OptDate(data.completedAt), old.completedAt)
             /\ new.duration = Merged(data.duration, old.duration)
             /\ \A key \in {"recording", "logUrl", "transcriptUrl"} :
                  Field(new.artifacts, key) =
                    Merged(Field(data.artifact, key), Field(old.artifacts, key))
             /\ \A key \in {"summary", "structuredData", "successEvaluation"} :
                  Field(new.analysis, key) =
                    Merged(Field(data.analysis, key), Field(old.analysis, key))
             /\ Field(data.artifact, "recording") = None =>
                  Field(new.artifacts, "recording") = Field(old.artifacts, "recording") ]_vars

\* A refresh has merged an answer without artifact.recording into a call
\* with a stored recording URL, and the URL is still stored.
C10_Witness ==
  \E p \in Refreshers :
    /\ rf[p].pc = "idle" /\ rf[p].data # None
    /\ Field(Get(rf[p].data).artifact, "recording") = None
    /\ Field(calls[rf[p].callId].artifacts, "recording") \in { Some("url-a"), Some("url-b") }

\* C11: a call's providerCallId is the id the provider gave when it
\* accepted the request that created the call (none for a call created by
\* a failed request), and no refresh, overlapping or not, changes or
\* clears it.
C11_ProviderCallIdSetOnce ==
  /\ [](\A id \in DOMAIN calls :
          calls[id].provider_call_id =
            (IF initiated # <<>> THEN Some(Len(initiated)) ELSE None))
  /\ [][ \A id \in DOMAIN calls :
           calls'[id].provider_call_id = calls[id].provider_call_id ]_vars

\* A refresh has stored a changed status and the call still carries the
\* provider's id.
C11_Witness ==
  \E p \in Refreshers :
    /\ rf[p].pc = "idle" /\ rf[p].data # None
    /\ calls[rf[p].callId].provider_call_id = Some(1)
    /\ calls[rf[p].callId].status = Some("completed")
    /\ calls[rf[p].callId].artifacts # None

\* The order of the local statuses: pending, in-progress, then the two
\* final statuses.
StatusRank(status) ==
  CASE status = Some("pending") -> 0
    [] status = Some("in-progress") -> 1
    [] OTHER -> 2

\* C12: a call's status only moves forward over refreshes: a completed or
\* failed call never returns to pending or in-progress, and a call in
\* progress never returns to pending.
C12_StatusMovesForward ==
  [][ \A id \in DOMAIN calls :
        StatusRank(calls'[id].status) >= StatusRank(calls[id].status) ]_vars

\* The local status the lookup gives for a provider status.
LookedUp(status) ==
  CASE status \in { Some("completed"), Some("finished") } -> "completed"
    [] status \in { Some("failed"), Some("error") } -> "failed"
    [] status \in { Some("in-progress"), Some("running"), Some("live") } -> "in-progress"
    [] OTHER -> "pending"

\* C13: a call created on provider acceptance carries the provider's id,
\* the status the fixed lookup gives for the provider's reported status
\* (pending for queued, for any other value and for none), and startedAt
\* exactly when that status is in-progress; no two calls carry one id.
C13_AcceptedCallIsMapped ==
  \A id \in DOMAIN calls :
    calls[id].provider_call_id # None =>
      LET k == Get(calls[id].provider_call_id) IN
      /\ k \in DOMAIN initiated
      /\ calls[id].status = Some(LookedUp(initiated[k].status))
      /\ calls[id].started_at # None <=> LookedUp(initiated[k].status) = "in-progress"
      /\ \A other \in DOMAIN calls :
           calls[other].provider_call_id = calls[id].provider_call_id => other = id

\* The provider has accepted one call as queued and one as live: the first
\* is pending without startedAt, the second in progress with it.
C13_Witness ==
  \E id \in DOMAIN calls, other \in DOMAIN calls :
    /\ calls[id].provider_call_id # None
    /\ initiated[Get(calls[id].provider_call_id)].status = Some("queued")
    /\ calls[id].status = Some("pending") /\ calls[id].started_at = None
    /\ calls[other].provider_call_id # None
    /\ initiated[Get(calls[other].provider_call_id)].status = Some("live")
    /\ calls[other].status = Some("in-progress") /\ calls[other].started_at # None

\* An invocation of refreshCallDetails throws.
RefreshFails(p) == rf'[p] # rf[p] /\ rf'[p].thrown # None

\* C14: a refresh of a call that does not exist or has no providerCallId
\* throws before any request to the provider, a refresh the provider
\* answers with a non-2xx status throws after it, and in all three cases the
\* call table is left as it was; a refresh that goes on to store has thrown
\* nothing.
C14_FailedRefreshChangesNothing ==
  /\ [](\A p \in Refreshers : rf[p].pc = "write" => rf[p].thrown = None)
  /\ [][ \A p \in Refreshers :
           RefreshFails(p) =>
             LET id == rf'[p].callId IN
             /\ calls' = calls
             /\ rf'[p].pc = "idle"
             /\ id \notin DOMAIN calls =>
                  rf'[p].thrown = Some("Call not found") /\ ~rf'[p].fetched
             /\ (id \in DOMAIN calls /\ calls[id].provider_call_id = None) =>
                  rf'[p].thrown = Some("no Vapi call ID") /\ ~rf'[p].fetched
             /\ (id \in DOMAIN calls /\ calls[id].provider_call_id # None) =>
                  rf'[p].thrown = Some("Failed to fetch call details")
                  /\ rf'[p].fetched ]_vars

\* A refresh of a call without providerCallId has thrown without a
\* request, and the failed call is stored as before.
C14_Witness ==
  \E p \in Refreshers :
    /\ rf[p].thrown = Some("no Vapi call ID") /\ ~rf[p].fetched
    /\ rf[p].callId \in DOMAIN calls
    /\ calls[rf[p].callId].status = Some("failed")
    /\ calls[rf[p].callId].provider_call_id = None

\* The schedules an invocation has attempted and not yet counted: the one
\* it is handling.
InProgress(r) == IF run[r].cur # None THEN 1 ELSE 0

\* An invocation returns.
PassEnds(r) == run[r].pc # "idle" /\ run'[r].pc = "idle"

InvocationBegins(r) == run[r].pc = "idle" /\ run'[r].pc = "start"

\* C16: the poller starts one invocation when the page mounts and one at
\* every tick of its timer; the timer is set exactly while the page is
\* mounted; an invocation that throws is caught, leaving the poller and
\* its timer as they were.
C16_PollerKeepsInvoking ==
  /\ [](/\ poller.armed <=> poller.mounted = "yes"
        /\ poller.started = (IF poller.mounted = "no" THEN 0 ELSE poller.ticks + 1))
  /\ [][ /\ poller'.started # poller.started =>
              /\ poller'.started = poller.started + 1
              /\ \E r \in Runs : InvocationBegins(r)
         /\ (poller.mounted = "no" /\ poller'.mounted = "yes") => poller'.started = 1
         /\ poller'.ticks # poller.ticks =>
              /\ poller'.ticks = poller.ticks + 1
              /\ poller'.started = poller.started + 1
         /\ \A r \in Runs :
              (run[r].pc = "start" /\ run'[r].pc = "idle") =>
                run'[r].thrown # None /\ poller' = poller ]_vars

\* An invocation has thrown, the page is mounted with its timer set, and
\* every tick so far has started an invocation, one of which is running.
C16_Witness ==
  \E r \in Runs, q \in Runs :
    /\ run[r].pc = "idle" /\ run[r].thrown = Some("store")
    /\ run[q].pc = "loop" /\ run[q].total > 0
    /\ poller.mounted = "yes" /\ poller.armed
    /\ poller.ticks = MaxTicks /\ poller.started = MaxTicks + 1

\* C17: invocations of the executor started by the poller never overlap:
\* at most one is running at any time.
C17_InvocationsNeverOverlap ==
  Cardinality({ r \in Runs : run[r].pc # "idle" }) <= 1

(* ------------------------- cancellation properties --------------------- *)

\* The ids a cancellation may be asked for that name no schedule.
MissingIds == (1..MaxSchedules) \ ScheduleRecords(schedules)

\* C18 as stated: cancelling a schedule id that does not exist throws an
\* error to the caller and changes no schedule.
C18_MissingIdThrows ==
  \A id \in MissingIds :
    /\ cancelScheduleThrown(schedules, id) # None
    /\ cancelSchedule(schedules, id) = schedules

\* C18, as the code has it: cancelling a schedule id that does not exist
\* throws nothing, returns false and changes no schedule, while
\* cancelling an existing id returns true.
C18_MissingIdReturnsFalse ==
  /\ \A id \in MissingIds :
       /\ cancelScheduleThrown(schedules, id) = None
       /\ cancelScheduleResult(schedules, id) = FALSE
       /\ cancelSchedule(schedules, id) = schedules
  /\ \A id \in ScheduleRecords(schedules) :
       cancelScheduleResult(schedules, id) = TRUE

\* One active schedule is stored and a second id names none: cancelling
\* the second returns false and the stored schedule is still active.
C18_Witness ==
  /\ DOMAIN schedules = {1}
  /\ 2 \in MissingIds
  /\ schedules[1].is_active = TRUE
  /\ cancelScheduleResult(schedules, 2) = FALSE
  /\ cancelSchedule(schedules, 2)[1].is_active = TRUE

(* --------------------------- deletion properties ----------------------- *)

\* C19 as stated: a schedule record is removed by no operation other than
\* the deletion of its patient; deleting a prompt, cancelling a schedule
\* and executing a schedule leave the set of schedule records unchanged.
C19_RemovedOnlyWithPatient ==
  [][ \A id \in ScheduleRecords(schedules) :
        id \notin ScheduleRecords(schedules') =>
          schedules[id].patient_id \in catalog.patients \ catalog'.patients
    ]_vars

\* C19, as the code has it: a schedule record is removed only in a step
\* that deletes its patient or its prompt, and such a step removes every
\* record of that patient or prompt; cancelling and executing a schedule
\* leave the set of schedule records unchanged, and an id is never given
\* to a second record.
C19_RemovedOnlyByCascade ==
  /\ [](\A id \in ScheduleRecords(schedules) :
          /\ schedules[id].patient_id \in catalog.patients
          /\ schedules[id].prompt_id \in catalog.prompts)
  /\ [][ /\ DOMAIN schedules \subseteq DOMAIN schedules'
         /\ \A id \in DOMAIN schedules :
              schedules[id] = DeletedSchedule => schedules'[id] = DeletedSchedule
         /\ \A id \in ScheduleRecords(schedules) :
              id \notin ScheduleRecords(schedules') <=>
                \/ schedules[id].patient_id \in catalog.patients \ catalog'.patients
                \/ schedules[id].prompt_id \in catalog.prompts \ catalog'.prompts
       ]_vars

\* The first schedule, made for one prompt, has been executed and retired
\* and is still a record; the second, made for the other prompt, went
\* with its prompt while the patient is still there.
C19_Witness ==
  /\ Len(schedules) = 2
  /\ 1 \in ScheduleRecords(schedules)
  /\ schedules[1].prompt_id = OtherPrompt
  /\ schedules[1].last_executed_at # None
  /\ schedules[1].is_active = FALSE
  /\ schedules[2] = DeletedSchedule
  /\ ThePrompt \notin catalog.prompts
  /\ ThePatient \in catalog.patients

(* ------------------------- calls made now ------------------------------ *)

\* C20: a request of type now is executed by a direct call initiation in
\* the step that handles it (the call row is written then, for no
\* schedule) and creates no schedule record; no row of type now is ever
\* stored, and the due check returns no schedule of type now, not even
\* from a table that held such a row.
C20_NowBypassesPoller ==
  /\ [](/\ \A id \in DOMAIN schedules : schedules[id].type # "now"
        /\ \A s \in listDueSchedules(schedules, now) : s.type # "now"
        /\ \A s \in listDueSchedules(
                      Append(schedules, createSchedule(NowRequest)), now) :
             s.type # "now"
        /\ \A r \in Runs : \A s \in run[r].due \cup run[r].cur : s.type # "now")
  /\ [][ ScheduleCallNow =>
           /\ schedules' = schedules
           /\ run' = run
           /\ Len(calls') = Len(calls) + 1
           /\ calls'[Len(calls')].schedule_id = None ]_vars

\* A call made now was initiated at once and left no schedule, and after
\* it the poller executed a schedule that was stored.
C20_Witness ==
  /\ Len(initiated) = 2
  /\ initiated[1].schedule = 0
  /\ initiated[2].schedule = 1
  /\ Len(schedules) = 1
  /\ schedules[1].type = "one-time"
  /\ Len(calls) = 2

(* ----------------------- overlapping invocations ----------------------- *)

\* An invocation gets the provider's acceptance for a schedule.
Initiates(r, id) ==
  /\ run[r].pc = "loop"
  /\ run'[r].pc = "record"
  /\ Get(run'[r].cur).id = id
  /\ Get(run'[r].resp).ok

SnapshotColumns ==
  { <<"startedAt", "started_at">>, <<"completedAt", "completed_at">>,
    <<"duration", "duration">> }
ArtifactKeys == {"recording", "logUrl", "transcriptUrl"}

\* C22: under any interleaving of refreshes of a call, the write of a
\* refresh whose snapshot omitted a field leaves the value the row holds
\* for that field, stored before or written by another refresh, as it is.
C22_ConcurrentRefreshKeepsFields ==
  [][ \A p \in Refreshers :
        RefreshStores(p) =>
          LET id == rf[p].callId
              data == Get(rf[p].data)
          IN /\ \A f \in SnapshotColumns :
                  (data[f[1]] = None /\ calls[id][f[2]] # None) =>
                    calls'[id][f[2]] = calls[id][f[2]]
             /\ \A key \in ArtifactKeys :
                  ( /\ Field(data.artifact, key) = None
                    /\ Field(calls[id].artifacts, key) # None ) =>
                    Field(calls'[id].artifacts, key) = Field(calls[id].artifacts, key)
    ]_vars

(* ------------------------- order of the steps -------------------------- *)

\* The call rows that carry a given provider call id.
RowsOf(providerCallId) ==
  { c \in DOMAIN calls : calls[c].provider_call_id = Some(providerCallId) }

\* C23: for a schedule the steps come in order. A call row with a
\* providerCallId exists only for a request the provider has accepted;
\* an invocation stores the call row only after the provider's answer and
\* without touching the schedule; and lastExecutedAt of a schedule is
\* written only by an invocation that holds the provider's acceptance for
\* it and whose call row is stored.
C23_StepsAreOrdered ==
  /\ [](\A c \in DOMAIN calls :
          calls[c].provider_call_id # None =>
            Get(calls[c].provider_call_id) \in DOMAIN initiated)
  /\ [][ /\ \A r \in Runs :
              /\ run'[r].pc = "record" => run[r].pc \in {"loop", "record"}
              /\ run'[r].pc = "update" => run[r].pc \in {"record", "update"}
              /\ (run[r].pc = "record" /\ run'[r] # run[r]) =>
                   /\ run[r].resp # None
                   /\ Get(run[r].resp).ok =>
                        /\ Get(run[r].resp).id \in DOMAIN initiated
                        /\ RowsOf(Get(run[r].resp).id) = {}
                        /\ RowsOf(Get(run[r].resp).id)' = {Len(calls')}
                   /\ Len(calls') = Len(calls) + 1
                   /\ schedules' = schedules
         /\ \A id \in ScheduleIds :
              schedules'[id].last_executed_at # schedules[id].last_executed_at =>
                \E r \in Runs :
                  /\ run[r].pc = "update"
                  /\ Get(run[r].cur).id = id
                  /\ Get(run[r].resp).ok
                  /\ initiated[Get(run[r].resp).id].schedule = id
                  /\ RowsOf(Get(run[r].resp).id) # {} ]_vars

\* An invocation has the provider's acceptance for a schedule and has
\* stored the call row, and the schedule's lastExecutedAt is not yet
\* written.
C23_Witness ==
  \E r \in Runs :
    /\ run[r].pc = "update"
    /\ Get(run[r].resp).ok
    /\ RowsOf(Get(run[r].resp).id) # {}
    /\ initiated[Get(run[r].resp).id].schedule = Get(run[r].cur).id
    /\ schedules[Get(run[r].cur).id].last_executed_at = None

(* --------------------------- one row per attempt ----------------------- *)

\* An invocation's createCall returns or throws.
AttemptEnds(r) == run[r].pc = "record" /\ run'[r] # run[r]

\* What createCall can meet once patient and prompt are resolved.
AttemptAnswers ==
  { Accepted(Len(initiated), Some(status)) : status \in InitiationStatuses }
  \cup { Failed(kind) : kind \in FailureKinds }

ActiveOneTime(row) ==
  row.is_active = TRUE /\ row.type = "one-time" /\ row.scheduled_time # None

DateOf(row) == ParseDate(Get(row.scheduled_time))

\* Two dates fall on the same day in the same 30-minute block.
SameBlock(a, b) ==
  a.day = b.day /\ a.hour = b.hour /\ a.minute \div 30 = b.minute \div 30

\* Two different active one-time schedules of a patient in one block.
DoubleBooked(table, a, b) ==
  /\ a # b
  /\ ActiveOneTime(table[a]) /\ ActiveOneTime(table[b])
  /\ table[a].patient_id = table[b].patient_id
  /\ SameBlock(DateOf(table[a]), DateOf(table[b]))

ArtifactArrays(artifact) ==
  IF artifact = None THEN {}
  ELSE UNION { { Candidates(Get(raw))[i] : i \in DOMAIN Candidates(Get(raw)) } :
               raw \in { r \in { Get(artifact).transcript, Get(artifact).messages,
                                 Get(artifact).messagesOpenAIFormatted } : r # None } }

\* The positions of the raw entries that yield message text.
WithText(items) == { i \in DOMAIN items : toTranscriptEntry(items[i]) # None }

\* entries are the raw entries that yield message text, in their order.
KeptInOrder(entries, items) ==
  /\ Len(entries) = Cardinality(WithText(items))
  /\ \A i \in DOMAIN entries :
       \E j \in WithText(items) :
         /\ Cardinality({ k \in WithText(items) : k < j }) = i - 1
         /\ entries[i] = Get(toTranscriptEntry(items[j]))

\* C26: a refresh replaces the stored transcript and the stored transcript
\* entries only when the provider's snapshot yielded at least one entry
\* with message text, and then stores those entries and their formatted
\* lines; otherwise it leaves both as stored. The entries it stores are
\* the entries of one array of the snapshot that yield message text, in
\* the order of that array, each with a message that is not empty.
C26_TranscriptReplacedOnlyByEntries ==
  [][ \A p \in Refreshers :
        RefreshStores(p) =>
          LET id == rf[p].callId
              artifact == Get(rf[p].data).artifact
              info == extractTranscriptFromArtifact(artifact)
          IN /\ info.entries = None =>
                  /\ info.formatted = None
                  /\ calls'[id].transcript = calls[id].transcript
                  /\ calls'[id].transcript_entries = calls[id].transcript_entries
             /\ info.entries # None =>
                  /\ Get(info.entries) # <<>>
                  /\ \A i \in DOMAIN Get(info.entries) :
                       Get(info.entries)[i].message # ""
                  /\ \E items \in ArtifactArrays(artifact) :
                       KeptInOrder(Get(info.entries), items)
                  /\ calls'[id].transcript_entries = info.entries
                  /\ calls'[id].transcript = info.formatted
                  /\ Len(Get(info.formatted)) = Len(Get(info.entries)) ]_vars

\* A refresh has stored the two entries with message text of a snapshot
\* of three, in their order, and a later refresh whose snapshot has no
\* such entry has left them as stored.
C26_Witness ==
  \E p \in Refreshers :
    /\ rf[p].pc = "idle" /\ rf[p].data # None
    /\ extractTranscriptFromArtifact(Get(rf[p].data).artifact).entries = None
    /\ calls[rf[p].callId].transcript_entries # None
    /\ Len(Get(calls[rf[p].callId].transcript_entries)) = 2
    /\ Get(calls[rf[p].callId].transcript_entries)[1].message = "hello"
    /\ Get(calls[rf[p].callId].transcript_entries)[2].message = "hi"
    /\ Len(Get(calls[rf[p].callId].transcript)) = 2

(* ------------------------------- retries ------------------------------- *)

\* The ids of the schedules an invocation has read and not yet attempted.
ToAttempt(r) == { s.id : s \in run[r].due }

\* The schedule has been executed: the flag is cleared and lastExecutedAt
\* is written.
Retired(id) ==
  /\ id \in ScheduleIds
  /\ schedules[id].is_active = FALSE
  /\ schedules[id].last_executed_at # None

Missing(params) ==
  \/ params.patientId \notin catalog.patients
  \/ params.promptId \notin catalog.prompts

\* An invocation takes up a schedule it has read whose patient or prompt
\* is missing.
AttemptsMissing(r) ==
  /\ run[r].pc = "loop"
  /\ \E s \in run[r].due \ run'[r].due : Missing(CallParams(s))

\* C28: a call attempt whose patient or prompt does not exist fails with
\* the error "Patient or prompt not found" before a request is sent to the
\* provider: no call is accepted, no call row is created and no schedule is
\* changed, whatever the provider would have answered; scheduleCall for a
\* missing patient or prompt stores no schedule either. No call row ever
\* names a patient or a prompt that is not in its table.
C28_MissingReferenceFailsFirst ==
  /\ [](\A patient \in Patients, prompt \in Prompts, resp \in PageAnswers :
          LET params == [ patientId |-> patient, promptId |-> prompt,
                          phoneNumber |-> ThePhone ]
              entry == [ schedule |-> 0, at |-> now, status |-> resp.status ]
          IN Missing(params) =>
               /\ createCallCheckedThrown(catalog, params, resp)
                    = Some("Patient or prompt not found")
               /\ createCallChecked(calls, catalog, params, resp, now) = calls
               /\ createCallInitiated(initiated, catalog, params, resp, entry)
                    = initiated
               /\ \A payload \in FormSubmissions :
                    scheduleCall(schedules, catalog,
                                 [ payload EXCEPT !.patientId = patient,
                                                  !.promptId = prompt ])
                      = schedules)
  /\ [](\A c \in DOMAIN calls :
          /\ calls[c].patient_id \subseteq catalog.patients
          /\ calls[c].prompt_id \subseteq catalog.prompts)
  /\ [][ \A r \in Runs :
           AttemptsMissing(r) =>
             /\ calls' = calls
             /\ initiated' = initiated
             /\ schedules' = schedules
             /\ run'[r].thrown = Some("Patient or prompt not found")
             /\ run'[r].failed = run[r].failed + 1
             /\ run'[r].pc = "loop" ]_vars

\* An invocation read a due schedule, its prompt was deleted before the
\* attempt, and the attempt ended with the error and nothing else.
C28_Witness ==
  \E r \in Runs :
    /\ run[r].thrown = Some("Patient or prompt not found")
    /\ run[r].failed = 1
    /\ catalog.patients = Patients
    /\ catalog.prompts # Prompts
    /\ calls = <<>>
    /\ initiated = <<>>

(* ------------------------- the flag is monotone ------------------------ *)

\* C29: isActive is monotone. A schedule is created active; no operation
\* on schedules (createSchedule, updateSchedule with any updates,
\* deactivateSchedule, cancelSchedule) makes an inactive schedule active
\* again or removes it; cancelSchedule on an inactive schedule leaves the
\* row as it is and returns true.
C29_IsActiveMonotone ==
  /\ [][ /\ \A id \in ScheduleIds :
              /\ id \in ScheduleIds'
              /\ schedules[id].is_active = FALSE => schedules'[id].is_active = FALSE
         /\ \A id \in ScheduleIds' \ ScheduleIds :
              schedules'[id].is_active = TRUE ]_vars
  /\ [](\A id \in ScheduleIds :
          schedules[id].is_active = FALSE =>
            /\ cancelSchedule(schedules, id) = schedules
            /\ cancelScheduleResult(schedules, id) = TRUE
            /\ cancelScheduleThrown(schedules, id) = None
            /\ \A updates \in UpdateArguments :
                 updateSchedule(schedules[id], updates).is_active = FALSE)

\* A cancelled schedule has been updated since (new time, execution
\* recorded) and is still inactive, next to one that is active.
C29_Witness ==
  /\ Len(schedules) = 2
  /\ schedules[1].is_active = FALSE
  /\ schedules[1].last_executed_at # None
  /\ schedules[1].scheduled_time = Some(ToISOString(1))
  /\ schedules[2].is_active = TRUE
  /\ now = 0

(* ------------------------- formatting twice ---------------------------- *)

\* The number on file has ten digits, or eleven of which the first is 1.
UsNumber(phone) ==
  \/ Len(DigitsOf(phone)) = 10
  \/ Len(DigitsOf(phone)) = 11 /\ DigitsOf(phone)[1] = "1"

\* C30 as stated: formatPhoneToE164 applied to its own output returns that
\* output, for every input.
C30_FormatIsIdempotent ==
  formatPhoneToE164(formatPhoneToE164(catalog.phone))
    = formatPhoneToE164(catalog.phone)

\* C30, as the code has it: formatPhoneToE164 applied to its own output
\* returns that output exactly when the input has ten digits, or eleven
\* digits of which the first is 1; for any other input, the empty string
\* included, the second application puts a further 1 before the digits.
\* Every output starts with "+1", and the number stored with a call is the
\* output for the number on file.
C30_IdempotentOnUsNumbers ==
  /\ [](LET phone == catalog.phone
            once == formatPhoneToE164(phone)
            twice == formatPhoneToE164(once)
        IN /\ twice = once <=> UsNumber(phone)
           /\ ~UsNumber(phone) =>
                /\ once = <<"+", "1">> \o DigitsOf(phone)
                /\ twice = <<"+", "1", "1">> \o DigitsOf(phone)
           /\ StartsWith(once, <<"+", "1">>)
           /\ DigitsOf(once) \in { DigitsOf(phone), <<"1">> \o DigitsOf(phone) })
  /\ [][ \A c \in DOMAIN calls' \ DOMAIN calls :
           calls'[c].phone_number = Some(formatPhoneToE164(catalog.phone)) ]_vars

\* A number of ten digits was formatted for a call, the output was put on
\* file, and the next call stored the same number.
C30_Witness ==
  /\ Len(calls) = 2
  /\ catalog.phone = <<"+", "1">> \o Run(10)
  /\ calls[1].phone_number = Some(catalog.phone)
  /\ calls[2].phone_number = Some(catalog.phone)
  /\ calls[1].provider_call_id # None

====
